---- MODULE Spec2Model ----
(***************************************************************************)
(* IoTScout: the concurrent discovery-and-enrichment engine                *)
(* (smart_devices/discovery.py, smart_devices/netutils.py) and the handler *)
(* registry (smart_devices/handlers/registry.py).                          *)
(*                                                                         *)
(* Python strings are sequences of one-character strings.  Python's None   *)
(* is the one-element sequence <<"None">>, whose element is no character,  *)
(* so that None differs from every string and stays comparable with one.   *)
(* A dict is the sequence of its <<key, value>> pairs in insertion order.  *)
(***************************************************************************)
EXTENDS Integers, Sequences, FiniteSets, TLC

----------------------------------------------------------------------------
(* Python values *)

None == <<"None">>

\* bool(x) for None, '' and {} (falsy) and for non-empty strings and dicts.
Truthy(x) == x # None /\ x # <<>>

\* Python's `a or b`.
Or(a, b) == IF Truthy(a) THEN a ELSE b

\* str(x): the text 'None' for None, the string itself otherwise.
Str(x) == IF x = None THEN <<"N", "o", "n", "e">> ELSE x

UpperChars == <<"A","B","C","D","E","F","G","H","I","J","K","L","M",
                "N","O","P","Q","R","S","T","U","V","W","X","Y","Z">>

LowerChars == <<"a","b","c","d","e","f","g","h","i","j","k","l","m",
                "n","o","p","q","r","s","t","u","v","w","x","y","z">>

LowerChar(c) ==
    IF \E i \in 1..Len(UpperChars) : UpperChars[i] = c
    THEN LowerChars[CHOOSE i \in 1..Len(UpperChars) : UpperChars[i] = c]
    ELSE c

UpperChar(c) ==
    IF \E i \in 1..Len(LowerChars) : LowerChars[i] = c
    THEN UpperChars[CHOOSE i \in 1..Len(LowerChars) : LowerChars[i] = c]
    ELSE c

\* str.lower() and str.upper()
Lower(s) == [i \in 1..Len(s) |-> LowerChar(s[i])]

Upper(s) == [i \in 1..Len(s) |-> UpperChar(s[i])]

\* p occurs in s at position i (1-based)
OccursAt(s, p, i) ==
    /\ i >= 1
    /\ i + Len(p) - 1 <= Len(s)
    /\ SubSeq(s, i, i + Len(p) - 1) = p

\* `p in s` for strings
Contains(s, p) == \E i \in 1..(Len(s) + 1) : OccursAt(s, p, i)

\* str.find(p) + 1: the first position of p in s, 0 when there is none
Find(s, p) ==
    IF Contains(s, p)
    THEN CHOOSE i \in 1..(Len(s) + 1) :
            OccursAt(s, p, i) /\ \A j \in 1..(i - 1) : ~OccursAt(s, p, j)
    ELSE 0

StartsWith(s, p) == OccursAt(s, p, 1)

EndsWith(s, p) == OccursAt(s, p, Len(s) - Len(p) + 1)

\* str.replace(old, new) for a non-empty old: every non-overlapping
\* occurrence, left to right.
RECURSIVE Replace(_, _, _)
Replace(s, old, new) ==
    IF s = <<>> THEN <<>>
    ELSE IF OccursAt(s, old, 1)
         THEN new \o Replace(SubSeq(s, Len(old) + 1, Len(s)), old, new)
         ELSE <<s[1]>> \o Replace(Tail(s), old, new)

\* str.split(sep)[0]
SplitFirst(s, sep) ==
    IF Find(s, sep) = 0 THEN s ELSE SubSeq(s, 1, Find(s, sep) - 1)

\* str.rstrip(chars) for a single character
RECURSIVE RStrip(_, _)
RStrip(s, c) ==
    IF s # <<>> /\ s[Len(s)] = c THEN RStrip(SubSeq(s, 1, Len(s) - 1), c) ELSE s

\* dict: `k in d`, d.get(k) (None when absent), d[k] = v
HasKey(d, k) == \E i \in 1..Len(d) : d[i][1] = k

DictGet(d, k) ==
    IF HasKey(d, k) THEN d[CHOOSE i \in 1..Len(d) : d[i][1] = k][2] ELSE None

DictSet(d, k, v) ==
    IF HasKey(d, k)
    THEN [i \in 1..Len(d) |-> IF d[i][1] = k THEN <<k, v>> ELSE d[i]]
    ELSE Append(d, <<k, v>>)

----------------------------------------------------------------------------
(* discovery.py: the two label tables *)

SERVICE_SUFFIX_TO_NAME == <<
    <<<<"_", "g", "o", "o", "g", "l", "e", "c", "a", "s", "t", ".", "_", "t", "c", "p", ".", "l", "o", "c", "a", "l", ".">>,
      <<"G", "o", "o", "g", "l", "e", " ", "C", "a", "s", "t", " ", "(", "C", "h", "r", "o", "m", "e", "c", "a", "s", "t", "/", "G", "o", "o", "g", "l", "e", " ", "H", "o", "m", "e", ")">>>>,
    <<<<"_", "h", "u", "e", ".", "_", "t", "c", "p", ".", "l", "o", "c", "a", "l", ".">>,
      <<"P", "h", "i", "l", "i", "p", "s", " ", "H", "u", "e", " ", "B", "r", "i", "d", "g", "e">>>>,
    <<<<"_", "h", "a", "p", ".", "_", "t", "c", "p", ".", "l", "o", "c", "a", "l", ".">>,
      <<"A", "p", "p", "l", "e", " ", "H", "o", "m", "e", "K", "i", "t", " ", "A", "c", "c", "e", "s", "s", "o", "r", "y", " ", "(", "H", "A", "P", ")">>>>,
    <<<<"_", "a", "i", "r", "p", "l", "a", "y", ".", "_", "t", "c", "p", ".", "l", "o", "c", "a", "l", ".">>,
      <<"A", "p", "p", "l", "e", " ", "A", "i", "r", "P", "l", "a", "y", " ", "/", " ", "A", "p", "p", "l", "e", "T", "V">>>>,
    <<<<"_", "s", "p", "o", "t", "i", "f", "y", "-", "c", "o", "n", "n", "e", "c", "t", ".", "_", "t", "c", "p", ".", "l", "o", "c", "a", "l", ".">>,
      <<"S", "p", "o", "t", "i", "f", "y", " ", "C", "o", "n", "n", "e", "c", "t">>>>,
    <<<<"_", "h", "t", "t", "p", ".", "_", "t", "c", "p", ".", "l", "o", "c", "a", "l", ".">>,
      <<"H", "T", "T", "P", " ", "W", "e", "b", " ", "S", "e", "r", "v", "i", "c", "e">>>>,
    <<<<"_", "h", "t", "t", "p", "s", ".", "_", "t", "c", "p", ".", "l", "o", "c", "a", "l", ".">>,
      <<"H", "T", "T", "P", "S", " ", "W", "e", "b", " ", "S", "e", "r", "v", "i", "c", "e">>>>,
    <<<<"_", "s", "s", "h", ".", "_", "t", "c", "p", ".", "l", "o", "c", "a", "l", ".">>,
      <<"S", "S", "H", " ", "S", "e", "r", "v", "i", "c", "e">>>>,
    <<<<"_", "i", "p", "p", ".", "_", "t", "c", "p", ".", "l", "o", "c", "a", "l", ".">>,
      <<"I", "P", "P", " ", "P", "r", "i", "n", "t", "e", "r">>>>,
    <<<<"_", "p", "r", "i", "n", "t", "e", "r", ".", "_", "t", "c", "p", ".", "l", "o", "c", "a", "l", ".">>,
      <<"N", "e", "t", "w", "o", "r", "k", " ", "P", "r", "i", "n", "t", "e", "r">>>>,
    <<<<"_", "s", "c", "a", "n", "n", "e", "r", ".", "_", "t", "c", "p", ".", "l", "o", "c", "a", "l", ".">>,
      <<"N", "e", "t", "w", "o", "r", "k", " ", "S", "c", "a", "n", "n", "e", "r">>>>,
    <<<<"_", "a", "m", "z", "n", "-", "w", "p", "l", "a", "y", ".", "_", "t", "c", "p", ".", "l", "o", "c", "a", "l", ".">>,
      <<"A", "m", "a", "z", "o", "n", " ", "F", "i", "r", "e", " ", "/", " ", "A", "l", "e", "x", "a">>>>,
    <<<<"_", "a", "n", "d", "r", "o", "i", "d", "t", "v", "r", "e", "m", "o", "t", "e", "2", ".", "_", "t", "c", "p", ".", "l", "o", "c", "a", "l", ".">>,
      <<"A", "n", "d", "r", "o", "i", "d", " ", "T", "V", " ", "R", "e", "m", "o", "t", "e">>>>,
    <<<<"_", "c", "o", "m", "p", "a", "n", "i", "o", "n", "-", "l", "i", "n", "k", ".", "_", "t", "c", "p", ".", "l", "o", "c", "a", "l", ".">>,
      <<"C", "o", "m", "p", "a", "n", "i", "o", "n", " ", "L", "i", "n", "k", " ", "/", " ", "P", "h", "o", "n", "e", " ", "L", "i", "n", "k">>>>,
    <<<<"_", "c", "a", "r", "p", "l", "a", "y", "-", "c", "t", "r", "l", ".", "_", "t", "c", "p", ".", "l", "o", "c", "a", "l", ".">>,
      <<"A", "p", "p", "l", "e", " ", "C", "a", "r", "P", "l", "a", "y", " ", "C", "o", "n", "t", "r", "o", "l">>>>,
    <<<<"_", "s", "p", "o", "t", "i", "f", "y", "-", "s", "o", "c", "i", "a", "l", "-", "l", "i", "s", "t", "e", "n", "i", "n", "g", ".", "_", "t", "c", "p", ".", "l", "o", "c", "a", "l", ".">>,
      <<"S", "p", "o", "t", "i", "f", "y", " ", "S", "o", "c", "i", "a", "l", " ", "L", "i", "s", "t", "e", "n", "i", "n", "g">>>>,
    <<<<"_", "s", "o", "n", "o", "s", ".", "_", "t", "c", "p", ".", "l", "o", "c", "a", "l", ".">>,
      <<"S", "o", "n", "o", "s">>>>,
    <<<<"_", "m", "a", "t", "t", "e", "r", ".", "_", "t", "c", "p", ".", "l", "o", "c", "a", "l", ".">>,
      <<"M", "a", "t", "t", "e", "r", " ", "S", "m", "a", "r", "t", " ", "H", "o", "m", "e", " ", "D", "e", "v", "i", "c", "e">>>>
>>

SERVICE_TYPE_NAMES == <<
    <<<<"g", "o", "o", "g", "l", "e", "c", "a", "s", "t">>,
      <<"G", "o", "o", "g", "l", "e", " ", "C", "a", "s", "t", " ", "(", "C", "h", "r", "o", "m", "e", "c", "a", "s", "t", "/", "G", "o", "o", "g", "l", "e", " ", "H", "o", "m", "e", ")">>>>,
    <<<<"g", "o", "o", "g", "l", "e", "c", "a", "s", "t", "-", "t", "l", "s">>,
      <<"G", "o", "o", "g", "l", "e", " ", "C", "a", "s", "t", " ", "(", "s", "e", "c", "u", "r", "e", ")">>>>,
    <<<<"h", "u", "e">>,
      <<"P", "h", "i", "l", "i", "p", "s", " ", "H", "u", "e", " ", "B", "r", "i", "d", "g", "e">>>>,
    <<<<"p", "h", "i", "l", "i", "p", "s", "h", "u", "e">>,
      <<"P", "h", "i", "l", "i", "p", "s", " ", "H", "u", "e", " ", "B", "r", "i", "d", "g", "e">>>>,
    <<<<"a", "i", "r", "p", "l", "a", "y">>,
      <<"A", "p", "p", "l", "e", " ", "A", "i", "r", "P", "l", "a", "y", " ", "/", " ", "A", "p", "p", "l", "e", "T", "V">>>>,
    <<<<"a", "i", "r", "p", "l", "a", "y", "2">>,
      <<"A", "p", "p", "l", "e", " ", "A", "i", "r", "P", "l", "a", "y", " ", "2">>>>,
    <<<<"r", "a", "o", "p">>,
      <<"A", "i", "r", "P", "l", "a", "y", " ", "(", "R", "A", "O", "P", ")">>>>,
    <<<<"r", "a", "o", "p", "v", "2">>,
      <<"A", "i", "r", "P", "l", "a", "y", " ", "(", "R", "A", "O", "P", " ", "v", "2", ")">>>>,
    <<<<"h", "o", "m", "e", "k", "i", "t">>,
      <<"A", "p", "p", "l", "e", " ", "H", "o", "m", "e", "K", "i", "t", " ", "A", "c", "c", "e", "s", "s", "o", "r", "y">>>>,
    <<<<"h", "a", "p">>,
      <<"A", "p", "p", "l", "e", " ", "H", "o", "m", "e", "K", "i", "t", " ", "A", "c", "c", "e", "s", "s", "o", "r", "y", " ", "(", "H", "A", "P", ")">>>>,
    <<<<"a", "m", "z", "n", "-", "a", "l", "e", "x", "a">>,
      <<"A", "m", "a", "z", "o", "n", " ", "A", "l", "e", "x", "a", " ", "/", " ", "E", "c", "h", "o">>>>,
    <<<<"a", "m", "z", "n", "-", "w", "p", "l", "a", "y">>,
      <<"A", "m", "a", "z", "o", "n", " ", "F", "i", "r", "e", " ", "T", "V", " ", "/", " ", "A", "l", "e", "x", "a", " ", "C", "a", "s", "t">>>>,
    <<<<"s", "o", "n", "o", "s">>,
      <<"S", "o", "n", "o", "s", " ", "S", "p", "e", "a", "k", "e", "r">>>>,
    <<<<"s", "p", "o", "t", "i", "f", "y", "-", "c", "o", "n", "n", "e", "c", "t">>,
      <<"S", "p", "o", "t", "i", "f", "y", " ", "C", "o", "n", "n", "e", "c", "t">>>>,
    <<<<"s", "p", "o", "t", "i", "f", "y">>,
      <<"S", "p", "o", "t", "i", "f", "y", " ", "S", "e", "r", "v", "i", "c", "e">>>>,
    <<<<"r", "o", "k", "u">>,
      <<"R", "o", "k", "u", " ", "D", "e", "v", "i", "c", "e">>>>,
    <<<<"a", "n", "d", "r", "o", "i", "d", "t", "v">>,
      <<"A", "n", "d", "r", "o", "i", "d", " ", "T", "V">>>>,
    <<<<"a", "n", "d", "r", "o", "i", "d", "t", "v", "r", "e", "m", "o", "t", "e", "2">>,
      <<"A", "n", "d", "r", "o", "i", "d", " ", "T", "V", " ", "R", "e", "m", "o", "t", "e">>>>,
    <<<<"c", "h", "r", "o", "m", "e", "c", "a", "s", "t">>,
      <<"C", "h", "r", "o", "m", "e", "c", "a", "s", "t">>>>,
    <<<<"d", "l", "n", "a">>,
      <<"D", "L", "N", "A", " ", "M", "e", "d", "i", "a", " ", "S", "e", "r", "v", "e", "r", " ", "/", " ", "R", "e", "n", "d", "e", "r", "e", "r">>>>,
    <<<<"i", "p", "p">>,
      <<"I", "P", "P", " ", "P", "r", "i", "n", "t", "e", "r">>>>,
    <<<<"p", "r", "i", "n", "t", "e", "r">>,
      <<"N", "e", "t", "w", "o", "r", "k", " ", "P", "r", "i", "n", "t", "e", "r">>>>,
    <<<<"p", "d", "l", "-", "d", "a", "t", "a", "s", "t", "r", "e", "a", "m">>,
      <<"P", "r", "i", "n", "t", "e", "r", " ", "(", "P", "D", "L", " ", "d", "a", "t", "a", "s", "t", "r", "e", "a", "m", ")">>>>,
    <<<<"s", "c", "a", "n", "n", "e", "r">>,
      <<"N", "e", "t", "w", "o", "r", "k", " ", "S", "c", "a", "n", "n", "e", "r">>>>,
    <<<<"u", "s", "c", "a", "n">>,
      <<"S", "c", "a", "n", "n", "e", "r">>>>,
    <<<<"p", "r", "i", "v", "e", "t">>,
      <<"C", "l", "o", "u", "d", " ", "P", "r", "i", "n", "t", " ", "/", " ", "P", "r", "i", "v", "e", "t", " ", "P", "r", "i", "n", "t", "e", "r">>>>,
    <<<<"h", "o", "m", "e", "-", "a", "s", "s", "i", "s", "t", "a", "n", "t">>,
      <<"H", "o", "m", "e", " ", "A", "s", "s", "i", "s", "t", "a", "n", "t">>>>,
    <<<<"m", "q", "t", "t">>,
      <<"M", "Q", "T", "T", " ", "B", "r", "o", "k", "e", "r">>>>,
    <<<<"m", "q", "t", "t", "-", "t", "l", "s">>,
      <<"M", "Q", "T", "T", " ", "B", "r", "o", "k", "e", "r", " ", "(", "T", "L", "S", ")">>>>,
    <<<<"t", "p", "l", "i", "n", "k">>,
      <<"T", "P", "-", "L", "i", "n", "k", " ", "S", "m", "a", "r", "t", " ", "D", "e", "v", "i", "c", "e">>>>,
    <<<<"t", "p", "l", "i", "n", "k", "-", "h", "t", "t", "p", "s">>,
      <<"T", "P", "-", "L", "i", "n", "k", " ", "(", "H", "T", "T", "P", "S", ")">>>>,
    <<<<"a", "q", "a", "r", "a", "-", "s", "e", "t", "u", "p">>,
      <<"A", "q", "a", "r", "a", " ", "S", "e", "t", "u", "p", " ", "/", " ", "H", "u", "b">>>>,
    <<<<"a", "q", "a", "r", "a">>,
      <<"A", "q", "a", "r", "a", " ", "d", "e", "v", "i", "c", "e">>>>,
    <<<<"m", "a", "t", "t", "e", "r">>,
      <<"M", "a", "t", "t", "e", "r", " ", "S", "m", "a", "r", "t", " ", "H", "o", "m", "e", " ", "D", "e", "v", "i", "c", "e">>>>,
    <<<<"h", "a", "p", "-", "b", "l", "e">>,
      <<"H", "A", "P", " ", "o", "v", "e", "r", " ", "B", "L", "E", " ", "(", "H", "o", "m", "e", "K", "i", "t", ")">>>>,
    <<<<"h", "t", "t", "p">>,
      <<"H", "T", "T", "P", " ", "W", "e", "b", " ", "S", "e", "r", "v", "i", "c", "e">>>>,
    <<<<"h", "t", "t", "p", "s">>,
      <<"H", "T", "T", "P", "S", " ", "W", "e", "b", " ", "S", "e", "r", "v", "i", "c", "e">>>>,
    <<<<"s", "s", "h">>,
      <<"S", "S", "H", " ", "S", "e", "r", "v", "i", "c", "e">>>>,
    <<<<"f", "t", "p">>,
      <<"F", "T", "P", " ", "S", "e", "r", "v", "i", "c", "e">>>>,
    <<<<"s", "m", "b">>,
      <<"S", "M", "B", " ", "/", " ", "W", "i", "n", "d", "o", "w", "s", " ", "S", "h", "a", "r", "e">>>>,
    <<<<"a", "f", "p", "o", "v", "e", "r", "t", "c", "p">>,
      <<"A", "p", "p", "l", "e", " ", "F", "i", "l", "i", "n", "g", " ", "P", "r", "o", "t", "o", "c", "o", "l", " ", "(", "A", "F", "P", ")">>>>,
    <<<<"s", "m", "b", "d">>,
      <<"S", "M", "B">>>>,
    <<<<"g", "o", "o", "g", "l", "e", "z", "o", "n", "e">>,
      <<"G", "o", "o", "g", "l", "e", " ", "Z", "o", "n", "e", " ", "/", " ", "C", "a", "s", "t">>>>,
    <<<<"a", "p", "p", "l", "e", "-", "m", "o", "b", "d", "e", "v", "2">>,
      <<"A", "p", "p", "l", "e", " ", "M", "o", "b", "i", "l", "e", " ", "D", "e", "v", "i", "c", "e">>>>,
    <<<<"c", "o", "m", "p", "a", "n", "i", "o", "n", "-", "l", "i", "n", "k">>,
      <<"C", "o", "m", "p", "a", "n", "i", "o", "n", " ", "L", "i", "n", "k", " ", "/", " ", "P", "h", "o", "n", "e", " ", "L", "i", "n", "k">>>>,
    <<<<"c", "a", "r", "p", "l", "a", "y", "-", "c", "t", "r", "l">>,
      <<"A", "p", "p", "l", "e", " ", "C", "a", "r", "P", "l", "a", "y", " ", "C", "o", "n", "t", "r", "o", "l">>>>,
    <<<<"h", "t", "t", "p", "-", "a", "l", "t">>,
      <<"A", "l", "t", "e", "r", "n", "a", "t", "e", " ", "H", "T", "T", "P">>>>,
    <<<<"c", "r", "o", "s", "-", "p", "2", "p">>,
      <<"C", "h", "r", "o", "m", "e", "O", "S", " ", "P", "2", "P", " ", "s", "e", "r", "v", "i", "c", "e", " ", "(", "C", "h", "r", "o", "m", "e", "b", "o", "o", "k", ")">>>>
>>

----------------------------------------------------------------------------
(* handlers/registry.py *)

\* extract_service_name(type_str): '_hue._tcp.local.' -> 'hue'
extract_service_name(type_str) ==
    IF ~Truthy(type_str) THEN <<>>
    ELSE LET t    == IF StartsWith(type_str, <<"_">>) THEN Tail(type_str) ELSE type_str
             name == SplitFirst(t, <<".", "_">>)
         IN  Lower(Replace(Replace(name, <<".","l","o","c","a","l",".">>, <<>>),
                           <<".","l","o","c","a","l">>, <<>>))

----------------------------------------------------------------------------
(* discovery.py: building a device from a resolved service-info *)

META_TYPE ==
    <<"_","s","e","r","v","i","c","e","s",".","_","d","n","s","-","s","d",".",
      "_","u","d","p",".","l","o","c","a","l",".">>

ServiceSuffix == <<" ","(","s","e","r","v","i","c","e",")">>

\* the label both branches of add_service try first (lines 215 and 277)
TableLabel(type) ==
    Or(DictGet(SERVICE_SUFFIX_TO_NAME, type),
       DictGet(SERVICE_TYPE_NAMES, extract_service_name(type)))

\* friendly name of the minimal device (line 215)
MinimalFriendly(type) ==
    Or(TableLabel(type), extract_service_name(type) \o ServiceSuffix)

\* a bug: the advertised display name is preferred to the tables' labels
ResolvedFriendlyPropsFirst(type, props) ==
    Or(DictGet(props, <<"f","n">>),
       Or(DictGet(props, <<"n","a","m","e">>),
          Or(TableLabel(type), extract_service_name(type) \o ServiceSuffix)))

\* friendly name of a resolved device (lines 277-280)
ResolvedFriendly(type, props) ==
    IF Truthy(TableLabel(type)) THEN TableLabel(type)
    ELSE Or(DictGet(props, <<"f","n">>),
            Or(DictGet(props, <<"n","a","m","e">>),
               extract_service_name(type) \o ServiceSuffix))

\* info.parsed_addresses(), and the fallback over info.addresses when it
\* raises (lines 236-248).  An address is [len |-> 4 | 16 | other, text |-> s].
\* The fallback binds the name _s only in its 4-byte branch, so a 16-byte
\* address met before any 4-byte one raises and ends the loop.
RECURSIVE FallbackAddrs(_, _, _)
FallbackAddrs(addrs, bound, acc) ==
    IF addrs = <<>> THEN acc
    ELSE IF Head(addrs).len = 4
         THEN FallbackAddrs(Tail(addrs), TRUE, Append(acc, Head(addrs).text))
         ELSE IF Head(addrs).len = 16
              THEN IF bound
                   THEN FallbackAddrs(Tail(addrs), bound, Append(acc, Head(addrs).text))
                   ELSE acc
              ELSE FallbackAddrs(Tail(addrs), bound, acc)

ParsedAddrs(info) ==
    IF info.parse_raises
    THEN FallbackAddrs(info.addresses, FALSE, <<>>)
    ELSE [i \in 1..Len(info.addresses) |-> info.addresses[i].text]

\* a bug: the loop ends at the first address of either family
PickFirstAddr(parsed, v6) ==
    IF parsed = <<>> THEN << <<>>, v6 >>
    ELSE IF Contains(Head(parsed), <<":">>)
         THEN << <<>>, Head(parsed) >>
         ELSE << Head(parsed), v6 >>

\* the address loop (lines 250-257): <<ip_v4, ip_v6>>
RECURSIVE PickAddrs(_, _)
PickAddrs(parsed, v6) ==
    IF parsed = <<>> THEN << <<>>, v6 >>
    ELSE IF Contains(Head(parsed), <<":">>)
         THEN PickAddrs(Tail(parsed), Head(parsed))
         ELSE << Head(parsed), v6 >>

\* decoding of the TXT properties (lines 259-275).  A raw property is
\* [k, kok, v, vkind]: key bytes k (kok: they decode), value bytes v with
\* vkind "bytes" (decodes), "badbytes" (does not decode) or "none" (no value).
BytesRepr(v) == <<"b", "'">> \o v \o <<"'">>

RECURSIVE DecodeProps(_, _)
DecodeProps(raw, acc) ==
    IF raw = <<>> THEN acc
    ELSE LET p  == Head(raw)
             dv == IF p.vkind = "bytes" THEN p.v
                   ELSE IF p.vkind = "badbytes" THEN BytesRepr(p.v)
                   ELSE None
         IN  IF p.kok
             THEN DecodeProps(Tail(raw), DictSet(acc, p.k, dv))
             ELSE DecodeProps(Tail(raw), acc)

\* a bug: the instance name is stored as the hostname as well
MinimalDeviceNamed(type, name) ==
    [type |-> type, name |-> name, friendly |-> MinimalFriendly(type),
     hostname |-> name, ip |-> <<>>, mac |-> <<>>, vendor |-> <<>>,
     service_info |-> None, properties |-> <<>>]

\* the device dict of the `not info` branch (lines 215-226)
MinimalDevice(type, name) ==
    [type |-> type, name |-> name, friendly |-> MinimalFriendly(type),
     hostname |-> <<>>, ip |-> <<>>, mac |-> <<>>, vendor |-> <<>>,
     service_info |-> None, properties |-> <<>>]

\* the device dict of a resolved instance (lines 235-292)
ResolvedDevice(type, name, info) ==
    LET picked == PickAddrs(ParsedAddrs(info), <<>>)
        props  == DecodeProps(info.properties, <<>>)
    IN  [type |-> type, name |-> name,
         friendly |-> ResolvedFriendly(type, props),
         hostname |-> RStrip(Or(info.server, <<>>), "."),
         ip |-> Or(picked[1], Or(picked[2], <<>>)),
         mac |-> <<>>, vendor |-> <<>>,
         service_info |-> info.id, properties |-> props]

----------------------------------------------------------------------------
(* bounds and inputs of the model *)

\* the store holds at most MaxDevices devices: an add or update event is
\* delivered only while fewer than that are stored or under way
MaxDevices == 2

\* EXECUTOR = ThreadPoolExecutor(max_workers=8)
MAX_WORKERS == 8

DThreads == {"d1", "d2"}

Workers == {"w1", "w2"}

\* the callback threads, the pool's workers and the main thread (the REPL)
Threads == DThreads \cup Workers \cup {"main"}

HueType == <<"_","h","u","e",".","_","t","c","p",".","l","o","c","a","l",".">>

LampType == <<"_","l","a","m","p",".","_","t","c","p",".","l","o","c","a","l",".">>

InstanceTypes == {HueType, LampType}

InstanceNames == {<<"a">>}

Ip4 == <<"1","0",".","0",".","0",".","5">>

Ip6 == <<"f","e","8","0",":",":","1">>

\* what zeroconf.get_service_info can return
Info1 ==
    [id |-> <<"Info1">>, server |-> <<"h","u","b",".">>,
     addresses |-> << [len |-> 4, text |-> Ip4] >>, parse_raises |-> FALSE,
     properties |-> <<>>]

Info2 ==
    [id |-> <<"Info2">>, server |-> None,
     addresses |-> <<>>, parse_raises |-> FALSE,
     properties |-> << [k |-> <<"f","n">>, kok |-> TRUE,
                        v |-> <<"D","e","n">>, vkind |-> "bytes"] >>]

Infos == {Info1, Info2}

Mac1 == <<"A","A",":","B","B",":","C","C",":","0","0",":","0","0",":","0","1">>

Mac2 == <<"A","A",":","B","B",":","C","C",":","0","0",":","0","0",":","0","2">>

Vendor1 == <<"A","c","m","e">>

Vendor2 == <<"O","t","h","e","r">>

Locks == {"discovered", "browsed", "devices", "show"}

----------------------------------------------------------------------------
(* state *)

VARIABLES
    discovered,     \* _discovered: set of <<type, name>>
    browsed,        \* _browsed_types
    devices,        \* _discovered_devices
    show,           \* _show_discoveries
    lock,           \* holder of each threading.Lock, or "free"
    queue,          \* EXECUTOR's work queue: device indexes (0-based)
    mac_cache,      \* lru_cache of get_mac_for_ip
    vendor_cache,   \* lru_cache of get_vendor_for_mac
    maclook,        \* _MACLOOK is set
    pc,             \* where each thread is
    dloc,           \* locals of the discovery callbacks
    wloc,           \* locals of the enrichment tasks
    out,            \* the line _print_discovery_line writes in this step
    handlers,       \* _device_handlers: <<key, handler>> in insertion order
    found,          \* the find_handler_for_device call made in this step
    snap,           \* the list get_devices returned to the main thread
    mloc,           \* data of export_devices_json, until it is written
    exported,       \* the file export_devices_json wrote last
    started,        \* the types ServiceBrowser was started for, in order
    fname,          \* a friendly-name computation: its arguments and results
    screen,         \* what the prompt's last list and show/interact commands gave
    raised,         \* <<thread, key>> of the resolve call that raises in this step
    hist            \* history (not program state):
                    \*   removed: a remove event was delivered
                    \*   adds[k]: add/update events delivered for k (2: two or
                    \*            more), counted until the first remove event
                    \*   claims[k]: handlers that added k to _discovered since
                    \*              k was last removed from it
                    \*   dropped: keys whose resolve raised, until the key is
                    \*            removed

vars == <<discovered, browsed, devices, show, lock, queue, mac_cache,
          vendor_cache, maclook, pc, dloc, wloc, out, raised, hist,
          handlers, found, snap, mloc, exported, started, fname, screen>>

\* no friendly-name computation
NoName ==
    [type |-> <<>>, resolved |-> FALSE, props |-> <<>>, result |-> None,
     again |-> None]

\* the state of the main thread's readers
main_vars == <<snap, mloc, exported>>

Key(d) == <<d.type, d.name>>

Keys == InstanceTypes \X InstanceNames

\* the line _print_discovery_line(idx, device) writes
Line(idx, device, by) ==
    [idx |-> idx, type |-> device.type, name |-> device.name, by |-> by]
\* nothing is written in this step
NoLine == [idx |-> 0, type |-> <<>>, name |-> <<>>, by |-> "none"]

NoRaise == <<"none", << <<>>, <<>> >> >>

Quiet == out' = NoLine /\ raised' = NoRaise

NoDevice ==
    [type |-> <<>>, name |-> <<>>, friendly |-> <<>>, hostname |-> <<>>,
     ip |-> <<>>, mac |-> <<>>, vendor |-> <<>>, service_info |-> None,
     properties |-> <<>>]

NoFound == [device |-> NoDevice, result |-> None]

\* no command was given: table is the rows of the last `list` (row n holds
\* a reference to the device shown next to n), n the number last given to
\* `show` or `interact` and selected the reference it chose (0: none)
NoScreen == [table |-> <<>>, n |-> 0, selected |-> 0]

\* get_devices has not been called
NoSnap == [refs |-> <<>>, taken |-> <<>>]

\* no export is under way; no file is written.  Besides the data, an export
\* carries the store it was copied from (history, not program state).
NoData == [done |-> FALSE, data |-> <<>>, store |-> <<>>, value |-> FALSE]

NoDLoc == [type |-> <<>>, name |-> <<>>, service_type |-> <<>>, seen |-> FALSE,
           minimal |-> FALSE, device |-> NoDevice, idx |-> 0]

NoWLoc == [device_index |-> 0, ip |-> <<>>, mac |-> <<>>, vendor |-> <<>>,
           updated |-> FALSE, refreshed |-> FALSE]

Init ==
    /\ discovered = {}
    /\ browsed = {}
    /\ devices = <<>>
    /\ show = TRUE
    /\ lock = [l \in Locks |-> "free"]
    /\ queue = <<>>
    /\ mac_cache = <<>>
    /\ vendor_cache = <<>>
    /\ maclook = FALSE
    /\ pc = [t \in Threads |-> "idle"]
    /\ dloc = [t \in DThreads |-> NoDLoc]
    /\ wloc = [w \in Workers |-> NoWLoc]
    /\ out = NoLine
    /\ raised = NoRaise
    /\ handlers = <<>>
    /\ found = NoFound
    /\ screen = NoScreen
    /\ fname = NoName
    /\ started = <<>>
    /\ snap = NoSnap
    /\ mloc = NoData
    /\ exported = NoData
    /\ hist = [removed |-> FALSE, dropped |-> {},
               adds |-> [k \in Keys |-> 0],
               claims |-> [k \in Keys |-> 0]]

\* `with l:` entered by thread t
Acquire(t, l) ==
    /\ lock[l] = "free"
    /\ lock' = [lock EXCEPT ![l] = t]

Release(t, l) == lock' = [lock EXCEPT ![l] = "free"]

Goto(t, label) == pc' = [pc EXCEPT ![t] = label]

\* the callback returns
Return(t) ==
    /\ pc' = [pc EXCEPT ![t] = "idle"]
    /\ dloc' = [dloc EXCEPT ![t] = NoDLoc]

----------------------------------------------------------------------------
(* Listener.remove_service (lines 176-180) *)

\* the callback is entered and takes _discovered_lock
RemoveService(t, type, name) ==
    /\ pc[t] = "idle"
    /\ Acquire(t, "discovered")
    /\ Goto(t, "rm_body")
    /\ dloc' = [dloc EXCEPT ![t] = [NoDLoc EXCEPT !.type = type, !.name = name]]
    /\ hist' = [hist EXCEPT !.removed = TRUE, !.adds = [k \in Keys |-> 0]]
    /\ UNCHANGED <<handlers, found, main_vars, started, fname, screen>>
    /\ UNCHANGED <<discovered, browsed, devices, show, queue, mac_cache,
                   vendor_cache, maclook, wloc>>
    /\ Quiet

\* a bug: the removal takes the pair's entries out of the store as well
RemoveBodyPurging(t) ==
    /\ pc[t] = "rm_body"
    /\ discovered' = discovered \ {<<dloc[t].type, dloc[t].name>>}
    /\ devices' = SelectSeq(devices,
                     LAMBDA d : <<d.type, d.name>> # <<dloc[t].type, dloc[t].name>>)
    /\ Release(t, "discovered")
    /\ Return(t)
    /\ hist' = [hist EXCEPT !.claims[<<dloc[t].type, dloc[t].name>>] = 0,
                             !.dropped = @ \ {<<dloc[t].type, dloc[t].name>>}]
    /\ UNCHANGED <<handlers, found, main_vars, started, fname, screen>>
    /\ UNCHANGED <<browsed, show, queue, mac_cache, vendor_cache, maclook, wloc>>
    /\ Quiet

\* if key in _discovered: _discovered.remove(key)
RemoveBody(t) ==
    /\ pc[t] = "rm_body"
    /\ discovered' = discovered \ {<<dloc[t].type, dloc[t].name>>}
    /\ Release(t, "discovered")
    /\ Return(t)
    /\ hist' = [hist EXCEPT !.claims[<<dloc[t].type, dloc[t].name>>] = 0,
                             !.dropped = @ \ {<<dloc[t].type, dloc[t].name>>}]
    /\ UNCHANGED <<handlers, found, main_vars, started, fname, screen>>
    /\ UNCHANGED <<browsed, devices, show, queue, mac_cache, vendor_cache, maclook,
                   wloc>>
    /\ Quiet

----------------------------------------------------------------------------
(* Listener.add_service for an instance type (lines 203-302) *)

\* handlers that may still append a device
UnderWay == {t \in DThreads : pc[t] \in {"dd_test", "dd_set", "resolve", "ap_body"}}

\* a bug: the test and the insertion are made without the lock
DedupLockIgnored(t) == TRUE

\* `with _discovered_lock:` (line 204): the lock is free
DedupLockFree(t) == lock["discovered"] = "free"

\* the callback is entered with (type, name) and takes _discovered_lock
AddService(t, type, name) ==
    /\ pc[t] = "idle"
    /\ type # META_TYPE
    /\ Len(devices) + Cardinality(UnderWay) < MaxDevices
    /\ DedupLockFree(t)
    /\ lock' = [lock EXCEPT !["discovered"] = t]
    /\ Goto(t, "dd_test")
    /\ dloc' = [dloc EXCEPT ![t] = [NoDLoc EXCEPT !.type = type, !.name = name]]
    /\ hist' = [hist EXCEPT !.adds[<<type, name>>] =
                                IF ~hist.removed /\ @ < 2 THEN @ + 1 ELSE @]
    /\ UNCHANGED <<handlers, found, main_vars, started, fname, screen>>
    /\ UNCHANGED <<discovered, browsed, devices, show, queue, mac_cache,
                   vendor_cache, maclook, wloc>>
    /\ Quiet

\* Listener.update_service (lines 182-183)
UpdateService(t, type, name) == AddService(t, type, name)

\* a bug: the membership test is lost, every event counts as new
DedupTestNotSeen(t) ==
    /\ pc[t] = "dd_test"
    /\ dloc' = [dloc EXCEPT ![t].seen = FALSE]
    /\ Goto(t, "dd_set")
    /\ UNCHANGED <<handlers, found, main_vars, started, fname, screen>>
    /\ UNCHANGED <<discovered, browsed, devices, show, lock, queue, mac_cache,
                   vendor_cache, maclook, wloc, hist>>
    /\ Quiet

\* if key in _discovered (line 205)
DedupTest(t) ==
    /\ pc[t] = "dd_test"
    /\ dloc' = [dloc EXCEPT ![t].seen = (<<dloc[t].type, dloc[t].name>> \in discovered)]
    /\ Goto(t, "dd_set")
    /\ UNCHANGED <<handlers, found, main_vars, started, fname, screen>>
    /\ UNCHANGED <<discovered, browsed, devices, show, lock, queue, mac_cache,
                   vendor_cache, maclook, wloc, hist>>
    /\ Quiet

\* return (line 206), or _discovered.add(key) (line 207); the lock is left
DedupSet(t) ==
    /\ pc[t] = "dd_set"
    /\ Release(t, "discovered")
    /\ IF dloc[t].seen
       THEN /\ Return(t)
            /\ UNCHANGED <<discovered, hist>>
       ELSE /\ discovered' = discovered \cup {<<dloc[t].type, dloc[t].name>>}
            /\ Goto(t, "resolve")
            /\ hist' = [hist EXCEPT !.claims[<<dloc[t].type, dloc[t].name>>] = @ + 1]
            /\ UNCHANGED dloc
    /\ UNCHANGED <<handlers, found, main_vars, started, fname, screen>>
    /\ UNCHANGED <<browsed, devices, show, queue, mac_cache, vendor_cache, maclook,
                   wloc>>
    /\ Quiet

\* a bug: a resolve that raises is handled like one that returns None
ResolveErrorAsAbsent(t) ==
    /\ pc[t] = "resolve"
    /\ Acquire(t, "devices")
    /\ dloc' = [dloc EXCEPT ![t].minimal = TRUE,
                            ![t].device = MinimalDevice(dloc[t].type, dloc[t].name)]
    /\ Goto(t, "ap_body")
    /\ hist' = [hist EXCEPT !.dropped = @ \cup {<<dloc[t].type, dloc[t].name>>}]
    /\ out' = NoLine
    /\ raised' = <<t, <<dloc[t].type, dloc[t].name>>>>
    /\ UNCHANGED <<handlers, found, main_vars, started, fname, screen>>
    /\ UNCHANGED <<discovered, browsed, devices, show, queue, mac_cache,
                   vendor_cache, maclook, wloc>>

\* a bug: the handler gives the pair back when its resolve raises
ResolveErrorForgetting(t) ==
    /\ pc[t] = "resolve"
    /\ lock["discovered"] = "free"
    /\ discovered' = discovered \ {<<dloc[t].type, dloc[t].name>>}
    /\ Return(t)
    /\ hist' = [hist EXCEPT !.dropped = @ \cup {<<dloc[t].type, dloc[t].name>>}]
    /\ out' = NoLine
    /\ raised' = <<t, <<dloc[t].type, dloc[t].name>>>>
    /\ UNCHANGED <<handlers, found, main_vars, started, fname, screen>>
    /\ UNCHANGED <<browsed, devices, show, lock, queue, mac_cache,
                   vendor_cache, maclook, wloc>>

\* zeroconf.get_service_info raises: except Exception: return (lines 209-212)
ResolveError(t) ==
    /\ pc[t] = "resolve"
    /\ Return(t)
    /\ hist' = [hist EXCEPT !.dropped = @ \cup {<<dloc[t].type, dloc[t].name>>}]
    /\ out' = NoLine
    /\ raised' = <<t, <<dloc[t].type, dloc[t].name>>>>
    /\ UNCHANGED <<handlers, found, main_vars, started, fname, screen>>
    /\ UNCHANGED <<discovered, browsed, devices, show, lock, queue, mac_cache,
                   vendor_cache, maclook, wloc>>

\* get_service_info returns None: the minimal device is built (lines 214-226)
\* and _discovered_devices_lock is taken (line 227)
ResolveAbsent(t) ==
    /\ pc[t] = "resolve"
    /\ Acquire(t, "devices")
    /\ dloc' = [dloc EXCEPT ![t].minimal = TRUE,
                            ![t].device = MinimalDevice(dloc[t].type, dloc[t].name)]
    /\ Goto(t, "ap_body")
    /\ UNCHANGED <<handlers, found, main_vars, started, fname, screen>>
    /\ UNCHANGED <<discovered, browsed, devices, show, queue, mac_cache,
                   vendor_cache, maclook, wloc, hist>>
    /\ Quiet

\* get_service_info returns info: the device is built (lines 235-292) and
\* _discovered_devices_lock is taken (line 293)
ResolveInfo(t, info) ==
    /\ pc[t] = "resolve"
    /\ Acquire(t, "devices")
    /\ dloc' = [dloc EXCEPT ![t].device =
                    ResolvedDevice(dloc[t].type, dloc[t].name, info)]
    /\ Goto(t, "ap_body")
    /\ UNCHANGED <<handlers, found, main_vars, started, fname, screen>>
    /\ UNCHANGED <<discovered, browsed, devices, show, queue, mac_cache,
                   vendor_cache, maclook, wloc, hist>>
    /\ Quiet

\* a bug: the device is inserted at the front
PrependDevice(devs, device) == <<device>> \o devs

\* _discovered_devices.append(device)
AppendDevice(devs, device) == Append(devs, device)

\* a bug: the print is nested in the store's `with` block, so the handler
\* asks for the flag's lock with the store's lock in hand
AppendBodyHolding(t) ==
    /\ pc[t] = "ap_body"
    /\ devices' = AppendDevice(devices, dloc[t].device)
    /\ dloc' = [dloc EXCEPT ![t].idx = Len(devices')]
    /\ Goto(t, "pr_lock")
    /\ UNCHANGED <<handlers, found, main_vars, started, fname, screen>>
    /\ UNCHANGED <<discovered, browsed, show, lock, queue, mac_cache,
                   vendor_cache, maclook, wloc, hist>>
    /\ Quiet

\* a bug: the task is submitted with the append, before the notification
AppendBodySubmitting(t) ==
    /\ pc[t] = "ap_body"
    /\ devices' = AppendDevice(devices, dloc[t].device)
    /\ dloc' = [dloc EXCEPT ![t].idx = Len(devices')]
    /\ queue' = IF Truthy(dloc[t].device.ip)
                THEN Append(queue, Len(devices') - 1)
                ELSE queue
    /\ Release(t, "devices")
    /\ Goto(t, "pr_lock")
    /\ UNCHANGED <<handlers, found, main_vars, started, fname, screen>>
    /\ UNCHANGED <<discovered, browsed, show, mac_cache, vendor_cache, maclook,
                   wloc, hist>>
    /\ Quiet

\* a bug: the length is read again after the lock was left, when another
\* handler may have appended: idx is taken from the store the other left
AppendBodyLateIndex(t) ==
    /\ pc[t] = "ap_body"
    /\ devices' = AppendDevice(devices, dloc[t].device)
    /\ dloc' = [dloc EXCEPT ![t].idx =
                   IF \E u \in DThreads \ {t} : pc[u] = "resolve"
                   THEN Len(devices') + 1 ELSE Len(devices')]
    /\ Release(t, "devices")
    /\ Goto(t, "pr_lock")
    /\ UNCHANGED <<handlers, found, main_vars, started, fname, screen>>
    /\ UNCHANGED <<discovered, browsed, show, queue, mac_cache, vendor_cache, maclook,
                   wloc, hist>>
    /\ Quiet

\* append; idx = len(_discovered_devices) (lines 227-229 and 293-295)
AppendBody(t) ==
    /\ pc[t] = "ap_body"
    /\ devices' = AppendDevice(devices, dloc[t].device)
    /\ dloc' = [dloc EXCEPT ![t].idx = Len(devices')]
    /\ Release(t, "devices")
    /\ Goto(t, "pr_lock")
    /\ UNCHANGED <<handlers, found, main_vars, started, fname, screen>>
    /\ UNCHANGED <<discovered, browsed, show, queue, mac_cache, vendor_cache, maclook,
                   wloc, hist>>
    /\ Quiet

\* `with _show_discoveries_lock:` (lines 230 and 297)
PrintLock(t) ==
    /\ pc[t] = "pr_lock"
    /\ Acquire(t, "show")
    /\ Goto(t, "pr_body")
    /\ UNCHANGED <<handlers, found, main_vars, started, fname, screen>>
    /\ UNCHANGED <<discovered, browsed, devices, show, queue, mac_cache,
                   vendor_cache, maclook, dloc, wloc, hist>>
    /\ Quiet

\* a bug: the line is written without a look at the flag
PrintBodyUngated(t) ==
    /\ pc[t] = "pr_body"
    /\ out' = Line(dloc[t].idx, dloc[t].device, "add")
    /\ raised' = NoRaise
    /\ Release(t, "show")
    /\ IF dloc[t].minimal
       THEN Return(t)
       ELSE Goto(t, "submit") /\ UNCHANGED dloc
    /\ UNCHANGED <<handlers, found, main_vars, started, fname, screen>>
    /\ UNCHANGED <<discovered, browsed, devices, show, queue, mac_cache,
                   vendor_cache, maclook, wloc, hist>>

\* if _show_discoveries: _print_discovery_line(idx, device) (lines 231-233
\* and 298-299); the minimal branch returns here
PrintBody(t) ==
    /\ pc[t] = "pr_body"
    /\ out' = IF show THEN Line(dloc[t].idx, dloc[t].device, "add") ELSE NoLine
    /\ raised' = NoRaise
    /\ Release(t, "show")
    /\ IF dloc[t].minimal
       THEN Return(t)
       ELSE Goto(t, "submit") /\ UNCHANGED dloc
    /\ UNCHANGED <<handlers, found, main_vars, started, fname, screen>>
    /\ UNCHANGED <<discovered, browsed, devices, show, queue, mac_cache,
                   vendor_cache, maclook, wloc, hist>>

\* a bug: the submit waits until a worker is free to take the task
SubmitToFreeWorker(t) ==
    /\ pc[t] = "submit"
    /\ \E w \in Workers : pc[w] = "idle" /\ queue = <<>>
    /\ queue' = IF Truthy(dloc[t].device.ip)
                THEN Append(queue, dloc[t].idx - 1)
                ELSE queue
    /\ Return(t)
    /\ UNCHANGED <<handlers, found, main_vars, started, fname, screen>>
    /\ UNCHANGED <<discovered, browsed, devices, show, lock, mac_cache,
                   vendor_cache, maclook, wloc, hist>>
    /\ Quiet

\* a bug: a task is submitted for every resolved device
SubmitAlways(t) ==
    /\ pc[t] = "submit"
    /\ queue' = Append(queue, dloc[t].idx - 1)
    /\ Return(t)
    /\ UNCHANGED <<handlers, found, main_vars, started, fname, screen>>
    /\ UNCHANGED <<discovered, browsed, devices, show, lock, mac_cache,
                   vendor_cache, maclook, wloc, hist>>
    /\ Quiet

\* if device['ip']: EXECUTOR.submit(_enrich_device_mac_vendor, idx - 1)
Submit(t) ==
    /\ pc[t] = "submit"
    /\ queue' = IF Truthy(dloc[t].device.ip)
                THEN Append(queue, dloc[t].idx - 1)
                ELSE queue
    /\ Return(t)
    /\ UNCHANGED <<handlers, found, main_vars, started, fname, screen>>
    /\ UNCHANGED <<discovered, browsed, devices, show, lock, mac_cache,
                   vendor_cache, maclook, wloc, hist>>
    /\ Quiet

\* set_show_discoveries(value) (lines 114-117), called by the main thread
SetShowDiscoveries(value) ==
    /\ pc["main"] = "idle"
    /\ lock["show"] = "free"
    /\ show' = value
    /\ UNCHANGED <<handlers, found, main_vars, started, fname, screen>>
    /\ UNCHANGED <<discovered, browsed, devices, lock, queue, mac_cache,
                   vendor_cache, maclook, pc, dloc, wloc, hist>>
    /\ Quiet

----------------------------------------------------------------------------
(* netutils.py *)

Raise == <<"Raise">>

HexChars == {"0","1","2","3","4","5","6","7","8","9","A","B","C","D","E","F"}

\* str.strip() of blanks
RECURSIVE LStrip(_, _)
LStrip(s, c) == IF s # <<>> /\ s[1] = c THEN LStrip(Tail(s), c) ELSE s

Strip(s) == LStrip(RStrip(s, " "), " ")

\* format_mac (lines 27-33)
format_mac(mac_raw) ==
    IF ~Truthy(mac_raw) THEN <<>>
    ELSE LET mac == Upper(Replace(Replace(Strip(mac_raw), <<"-">>, <<":">>),
                                  <<".">>, <<":">>))
         IN  IF Len(mac) = 12 /\ \A i \in 1..12 : mac[i] \in HexChars
             THEN <<mac[1], mac[2], ":", mac[3], mac[4], ":", mac[5], mac[6], ":",
                    mac[7], mac[8], ":", mac[9], mac[10], ":", mac[11], mac[12]>>
             ELSE mac

\* a bug: no try around getmacbyip, its exception leaves the function
get_mac_for_ip_unguarded(ip, env) ==
    IF ~Truthy(ip) THEN <<>>
    ELSE IF env.scapy = Raise THEN Raise
    ELSE IF Truthy(env.scapy) /\ Truthy(format_mac(env.scapy))
         THEN format_mac(env.scapy)
         ELSE IF Truthy(format_mac(env.arp1)) THEN format_mac(env.arp1)
              ELSE format_mac(env.arp2)

\* the body of get_mac_for_ip (lines 83-99) against what the network answers:
\* env.scapy is what getmacbyip gives (Raise, None or a raw address; None also
\* when scapy is not installed), env.arp1 and env.arp2 what the two
\* _arp_lookup_os calls find in the neighbor table ('' when nothing).
get_mac_for_ip(ip, env) ==
    IF ~Truthy(ip) THEN <<>>
    ELSE IF env.scapy # Raise /\ Truthy(env.scapy) /\ Truthy(format_mac(env.scapy))
         THEN format_mac(env.scapy)
         ELSE IF Truthy(format_mac(env.arp1)) THEN format_mac(env.arp1)
              ELSE format_mac(env.arp2)

\* the body of get_vendor_for_mac (lines 103-121) against the vendor
\* database: env.init says whether _get_maclookup yields an object when
\* _MACLOOK is unset (the package is installed and MacLookup() works),
\* env.lookup1 and env.lookup2 are what m.lookup(mac) gives before and after
\* the refresh (Raise on a miss), env.update whether m.update_vendors() works.
\* <<vendor, _MACLOOK is set afterwards, m.update_vendors() was called>>
get_vendor_for_mac(mac, env, looked) ==
    IF ~Truthy(mac) THEN << <<>>, looked, FALSE >>
    ELSE IF ~(looked \/ env.init) THEN << <<>>, looked, FALSE >>
    ELSE IF env.lookup1 # Raise THEN << Or(env.lookup1, <<>>), TRUE, FALSE >>
    ELSE IF ~env.update \/ env.lookup2 = Raise THEN << <<>>, TRUE, TRUE >>
    ELSE << Or(env.lookup2, <<>>), TRUE, TRUE >>

RawMac1 == <<"a","a","-","b","b","-","c","c","-","0","0","-","0","0","-","0","1">>

RawMac2 == <<"a","a",":","b","b",":","c","c",":","0","0",":","0","0",":","0","2">>

MacEnvs ==
    { [scapy |-> RawMac1, arp1 |-> <<>>, arp2 |-> <<>>],
      [scapy |-> Raise, arp1 |-> <<>>, arp2 |-> RawMac2],
      [scapy |-> None, arp1 |-> <<>>, arp2 |-> <<>>],
      [scapy |-> Raise, arp1 |-> <<>>, arp2 |-> <<>>] }

VendorEnvs ==
    { [init |-> TRUE, lookup1 |-> Vendor1, update |-> TRUE, lookup2 |-> Vendor1],
      [init |-> TRUE, lookup1 |-> Raise, update |-> TRUE, lookup2 |-> Vendor2],
      [init |-> TRUE, lookup1 |-> Raise, update |-> FALSE, lookup2 |-> Raise],
      [init |-> FALSE, lookup1 |-> Raise, update |-> FALSE, lookup2 |-> Raise] }

----------------------------------------------------------------------------
(* _enrich_device_mac_vendor (lines 150-172), run by a worker of EXECUTOR *)

WReturn(w) ==
    /\ pc' = [pc EXCEPT ![w] = "idle"]
    /\ wloc' = [wloc EXCEPT ![w] = NoWLoc]

\* a bug: the tasks that wait behind the one taken are lost
StartTaskDropping(w) ==
    /\ pc[w] = "idle"
    /\ queue # <<>>
    /\ Cardinality({v \in Workers : pc[v] # "idle"}) < MAX_WORKERS
    /\ Acquire(w, "devices")
    /\ queue' = <<>>
    /\ wloc' = [wloc EXCEPT ![w] = [NoWLoc EXCEPT !.device_index = Head(queue)]]
    /\ Goto(w, "e1_body")
    /\ UNCHANGED <<handlers, found, main_vars, started, fname, screen>>
    /\ UNCHANGED <<discovered, browsed, devices, show, mac_cache, vendor_cache,
                   maclook, dloc, hist>>
    /\ Quiet

\* a worker takes the next task and enters `with _discovered_devices_lock:`
StartTask(w) ==
    /\ pc[w] = "idle"
    /\ queue # <<>>
    /\ Cardinality({v \in Workers : pc[v] # "idle"}) < MAX_WORKERS
    /\ Acquire(w, "devices")
    /\ queue' = Tail(queue)
    /\ wloc' = [wloc EXCEPT ![w] = [NoWLoc EXCEPT !.device_index = Head(queue)]]
    /\ Goto(w, "e1_body")
    /\ UNCHANGED <<handlers, found, main_vars, started, fname, screen>>
    /\ UNCHANGED <<discovered, browsed, devices, show, mac_cache, vendor_cache,
                   maclook, dloc, hist>>
    /\ Quiet

\* _enrich_device_mac_vendor(device_index) called directly
CallEnrich(w, i) ==
    /\ pc[w] = "idle"
    /\ Acquire(w, "devices")
    /\ wloc' = [wloc EXCEPT ![w] = [NoWLoc EXCEPT !.device_index = i]]
    /\ Goto(w, "e1_body")
    /\ UNCHANGED <<handlers, found, main_vars, started, fname, screen>>
    /\ UNCHANGED <<discovered, browsed, devices, show, queue, mac_cache,
                   vendor_cache, maclook, dloc, hist>>
    /\ Quiet

\* a bug: the check of the address is lost
EnrichAnyIp(ip) == TRUE

\* if not ip: return (line 156)
EnrichHasIp(ip) == Truthy(ip)

\* the index check and the read of the device and its ip (lines 152-157)
EnrichRead(w) ==
    /\ pc[w] = "e1_body"
    /\ Release(w, "devices")
    /\ LET i == wloc[w].device_index
       IN  IF i < 0 \/ i >= Len(devices)
           THEN WReturn(w)
           ELSE IF EnrichHasIp(devices[i + 1].ip)
                THEN /\ wloc' = [wloc EXCEPT ![w].ip = devices[i + 1].ip]
                     /\ Goto(w, "mac_call")
                ELSE WReturn(w)
    /\ UNCHANGED <<handlers, found, main_vars, started, fname, screen>>
    /\ UNCHANGED <<discovered, browsed, devices, show, queue, mac_cache,
                   vendor_cache, maclook, dloc, hist>>
    /\ Quiet

\* what follows once mac is known: vendor = get_vendor_for_mac(mac) if mac
\* else '' (line 159)
AfterMac(mac) == IF Truthy(mac) THEN "ven_call" ELSE "e2_lock"

\* get_mac_for_ip(ip): the lru_cache is asked (line 158)
MacCall(w) ==
    /\ pc[w] = "mac_call"
    /\ IF HasKey(mac_cache, wloc[w].ip)
       THEN /\ wloc' = [wloc EXCEPT ![w].mac = DictGet(mac_cache, wloc[w].ip)]
            /\ Goto(w, AfterMac(DictGet(mac_cache, wloc[w].ip)))
       ELSE /\ Goto(w, "mac_compute")
            /\ UNCHANGED wloc
    /\ UNCHANGED <<handlers, found, main_vars, started, fname, screen>>
    /\ UNCHANGED <<discovered, browsed, devices, show, lock, queue, mac_cache,
                   vendor_cache, maclook, dloc, hist>>
    /\ Quiet

\* lru_cache stores the result of a call that missed, unless the key was
\* stored by another call in the meantime: the first result stays
CacheStore(cache, k, v) == IF HasKey(cache, k) THEN cache ELSE DictSet(cache, k, v)

\* a cache miss: the function runs and its result is cached
MacCompute(w, env) ==
    /\ pc[w] = "mac_compute"
    /\ LET mac == get_mac_for_ip(wloc[w].ip, env)
       IN  /\ mac_cache' = CacheStore(mac_cache, wloc[w].ip, mac)
           /\ wloc' = [wloc EXCEPT ![w].mac = mac]
           /\ Goto(w, AfterMac(mac))
    /\ UNCHANGED <<handlers, found, main_vars, started, fname, screen>>
    /\ UNCHANGED <<discovered, browsed, devices, show, lock, queue,
                   vendor_cache, maclook, dloc, hist>>
    /\ Quiet

\* get_vendor_for_mac(mac): the lru_cache is asked (line 159)
VendorCall(w) ==
    /\ pc[w] = "ven_call"
    /\ IF HasKey(vendor_cache, wloc[w].mac)
       THEN /\ wloc' = [wloc EXCEPT ![w].vendor = DictGet(vendor_cache, wloc[w].mac)]
            /\ Goto(w, "e2_lock")
       ELSE /\ Goto(w, "ven_compute")
            /\ UNCHANGED wloc
    /\ UNCHANGED <<handlers, found, main_vars, started, fname, screen>>
    /\ UNCHANGED <<discovered, browsed, devices, show, lock, queue, mac_cache,
                   vendor_cache, maclook, dloc, hist>>
    /\ Quiet

\* a cache miss: the function runs and its result is cached
VendorCompute(w, env) ==
    /\ pc[w] = "ven_compute"
    /\ LET r == get_vendor_for_mac(wloc[w].mac, env, maclook)
       IN  /\ vendor_cache' = CacheStore(vendor_cache, wloc[w].mac, r[1])
           /\ maclook' = r[2]
           /\ wloc' = [wloc EXCEPT ![w].vendor = r[1], ![w].refreshed = r[3]]
           /\ Goto(w, "e2_lock")
    /\ UNCHANGED <<handlers, found, main_vars, started, fname, screen>>
    /\ UNCHANGED <<discovered, browsed, devices, show, lock, queue, mac_cache,
                   dloc, hist>>
    /\ Quiet

\* `with _discovered_devices_lock:` (line 161)
EnrichLock(w) ==
    /\ pc[w] = "e2_lock"
    /\ Acquire(w, "devices")
    /\ Goto(w, "e2_body")
    /\ UNCHANGED <<handlers, found, main_vars, started, fname, screen>>
    /\ UNCHANGED <<discovered, browsed, devices, show, queue, mac_cache,
                   vendor_cache, maclook, dloc, wloc, hist>>
    /\ Quiet

\* a bug: the fields are written whenever the lookups found something
WriteBackOverwrite(d, mac, vendor) ==
    [d EXCEPT !.mac    = IF Truthy(mac) THEN mac ELSE @,
              !.vendor = IF Truthy(vendor) THEN vendor ELSE @]

\* a bug: the hardware address is not stored
WriteBackVendorOnly(d, mac, vendor) ==
    [d EXCEPT !.vendor = IF Truthy(vendor) /\ ~Truthy(d.vendor) THEN vendor ELSE @]

\* the two guarded writes (lines 163-168): the device afterwards
WriteBack(d, mac, vendor) ==
    [d EXCEPT !.mac    = IF Truthy(mac) /\ ~Truthy(d.mac) THEN mac ELSE @,
              !.vendor = IF Truthy(vendor) /\ ~Truthy(d.vendor) THEN vendor ELSE @]

\* a bug: updated is set whenever a lookup found something
UpdatedWhenFound(d, mac, vendor) == Truthy(mac) \/ Truthy(vendor)

\* updated (lines 160-168)
Updated(d, mac, vendor) ==
    \/ Truthy(mac) /\ ~Truthy(d.mac)
    \/ Truthy(vendor) /\ ~Truthy(d.vendor)

\* the write-back under the lock, first statement (lines 162-165): the
\* hardware address.  A reader that holds a reference to the dict and takes
\* no lock can run between this write and the next.
EnrichWrite(w) ==
    /\ pc[w] = "e2_body"
    /\ LET i == wloc[w].device_index + 1
           d == devices[i]
       IN  /\ devices' = [devices EXCEPT ![i] = WriteBack(d, wloc[w].mac, <<>>)]
           /\ wloc' = [wloc EXCEPT ![w].updated = Updated(d, wloc[w].mac, <<>>)]
    /\ Goto(w, "e2_vendor")
    /\ UNCHANGED <<handlers, found, main_vars, started, fname, screen>>
    /\ UNCHANGED <<discovered, browsed, show, lock, queue, mac_cache,
                   vendor_cache, maclook, dloc, hist>>
    /\ Quiet

\* second statement (lines 166-169): the vendor; the lock is left
EnrichWriteVendor(w) ==
    /\ pc[w] = "e2_vendor"
    /\ LET i == wloc[w].device_index + 1
           d == devices[i]
       IN  /\ devices' = [devices EXCEPT ![i] = WriteBack(d, <<>>, wloc[w].vendor)]
           /\ IF wloc[w].updated \/ Updated(d, <<>>, wloc[w].vendor)
              THEN /\ wloc' = [wloc EXCEPT ![w].updated = TRUE]
                   /\ Goto(w, "e3_lock")
              ELSE WReturn(w)
    /\ Release(w, "devices")
    /\ UNCHANGED <<handlers, found, main_vars, started, fname, screen>>
    /\ UNCHANGED <<discovered, browsed, show, queue, mac_cache, vendor_cache,
                   maclook, dloc, hist>>
    /\ Quiet

\* `with _show_discoveries_lock:` (line 170)
EnrichPrintLock(w) ==
    /\ pc[w] = "e3_lock"
    /\ Acquire(w, "show")
    /\ Goto(w, "e3_body")
    /\ UNCHANGED <<handlers, found, main_vars, started, fname, screen>>
    /\ UNCHANGED <<discovered, browsed, devices, show, queue, mac_cache,
                   vendor_cache, maclook, dloc, wloc, hist>>
    /\ Quiet

\* if _show_discoveries: _print_discovery_line(device_index + 1, d)
EnrichPrint(w) ==
    /\ pc[w] = "e3_body"
    /\ out' = IF show
              THEN Line(wloc[w].device_index + 1,
                        devices[wloc[w].device_index + 1], "enrich")
              ELSE NoLine
    /\ raised' = NoRaise
    /\ Release(w, "show")
    /\ WReturn(w)
    /\ UNCHANGED <<handlers, found, main_vars, started, fname, screen>>
    /\ UNCHANGED <<discovered, browsed, devices, show, queue, mac_cache,
                   vendor_cache, maclook, dloc, hist>>

----------------------------------------------------------------------------
(* the program *)

Discovery(T, I) ==
    \/ \E t \in T, type \in InstanceTypes, name \in InstanceNames :
          \/ AddService(t, type, name)
          \/ UpdateService(t, type, name)
          \/ RemoveService(t, type, name)
    \/ \E t \in T :
          \/ RemoveBody(t)
          \/ DedupTest(t)
          \/ DedupSet(t)
          \/ ResolveError(t)
          \/ ResolveAbsent(t)
          \/ \E info \in I : ResolveInfo(t, info)
          \/ AppendBody(t)
          \/ PrintLock(t)
          \/ PrintBody(t)
          \/ Submit(t)

Enrichment(W, ME, VE) ==
    \E w \in W :
        \/ StartTask(w)
        \/ EnrichRead(w)
        \/ MacCall(w)
        \/ \E env \in ME : MacCompute(w, env)
        \/ VendorCall(w)
        \/ \E env \in VE : VendorCompute(w, env)
        \/ EnrichLock(w)
        \/ EnrichWrite(w)
        \/ EnrichWriteVendor(w)
        \/ EnrichPrintLock(w)
        \/ EnrichPrint(w)

SetShow == \E value \in BOOLEAN : SetShowDiscoveries(value)

\* The program with one callback thread (zeroconf's event loop) and one
\* worker of the pool.
Next ==
    \/ Discovery({"d1"}, Infos)
    \/ Enrichment({"w1"}, MacEnvs, VendorEnvs)
    \/ SetShow

Spec == Init /\ [][Next]_vars

\* Concurrent delivery: two callback threads; the tasks they submit wait in
\* the queue.
NextConc ==
    \/ Discovery(DThreads, Infos)
    \/ SetShow

SpecConc == Init /\ [][NextConc]_vars

\* Enrichment on a store that discovery has filled: the handlers have
\* returned, the tasks they submitted are queued, no worker has started.
\* Besides the queued tasks, _enrich_device_mac_vendor is run again for any
\* index (a re-enrichment), by either worker.
DevA == ResolvedDevice(HueType, <<"a">>, Info1)

DevB == ResolvedDevice(LampType, <<"a">>, Info2)

DevC == MinimalDevice(LampType, <<"b">>)

EnrichStores == { <<DevC, DevA, DevB>> }

RECURSIVE QueueOf(_, _)
QueueOf(devs, i) ==
    IF i > Len(devs) THEN <<>>
    ELSE IF Truthy(devs[i].ip) THEN <<i - 1>> \o QueueOf(devs, i + 1)
         ELSE QueueOf(devs, i + 1)

InitEnrich ==
    /\ devices \in EnrichStores
    /\ discovered = {Key(devices[i]) : i \in 1..Len(devices)}
    /\ queue = QueueOf(devices, 1)
    /\ browsed = {}
    /\ show = TRUE
    /\ lock = [l \in Locks |-> "free"]
    /\ mac_cache = <<>>
    /\ vendor_cache = <<>>
    /\ maclook = FALSE
    /\ pc = [t \in Threads |-> "idle"]
    /\ dloc = [t \in DThreads |-> NoDLoc]
    /\ wloc = [w \in Workers |-> NoWLoc]
    /\ out = NoLine
    /\ raised = NoRaise
    /\ handlers = <<>>
    /\ found = NoFound
    /\ screen = NoScreen
    /\ fname = NoName
    /\ started = <<>>
    /\ snap = NoSnap
    /\ mloc = NoData
    /\ exported = NoData
    /\ hist = [removed |-> FALSE, dropped |-> {},
               adds |-> [k \in Keys |-> IF k \in discovered THEN 1 ELSE 0],
               claims |-> [k \in Keys |-> IF k \in discovered THEN 1 ELSE 0]]

NextEnrich ==
    \/ Enrichment(Workers, MacEnvs, VendorEnvs)
    \/ \E w \in Workers, i \in -1..Len(devices) : CallEnrich(w, i)
    \/ SetShow

SpecEnrich == InitEnrich /\ [][NextEnrich]_vars


----------------------------------------------------------------------------
(* handlers/registry.py: the registry and the handler lookup *)

\* what a call leaves behind when it falls through to the next statement
NoReturn == <<"NoReturn">>

\* x.lower(): only a string has the method
MethodLower(x) == IF x = None THEN Raise ELSE Lower(x)

Matter == <<"m","a","t","t","e","r">>

HomeAssistantKey == <<"h","o","m","e","-","a","s","s","i","s","t","a","n","t">>

HomeAssistant == <<"h","o","m","e","a","s","s","i","s","t","a","n","t">>

Hass == <<"h","a","s","s">>

\* val.lower() without str(): a property without value has no such method
PropTextUnguarded(key, val) ==
    LET k == MethodLower(Str(key))
        v == MethodLower(val)
    IN  IF k = Raise \/ v = Raise THEN Raise ELSE k \o v

\* k + v of lines 47-49
PropText(key, val) ==
    LET k == MethodLower(Str(key))
        v == MethodLower(Str(val))
    IN  IF k = Raise \/ v = Raise THEN Raise ELSE k \o v

\* the loop over the TXT properties (lines 46-52)
RECURSIVE FindByProps(_, _)
FindByProps(props, registry) ==
    IF props = <<>> THEN NoReturn
    ELSE LET kv == PropText(Head(props)[1], Head(props)[2])
         IN  IF kv = Raise THEN Raise
             ELSE IF Contains(kv, Matter) /\ HasKey(registry, Matter)
                  THEN DictGet(registry, Matter)
             ELSE IF /\ Contains(kv, HomeAssistant) \/ Contains(kv, Hass)
                     /\ HasKey(registry, HomeAssistantKey)
                  THEN DictGet(registry, HomeAssistantKey)
             ELSE FindByProps(Tail(props), registry)

\* the loop over the registered keys (lines 56-58); rest is the part of the
\* registry not yet visited
RECURSIVE FindBySubstring(_, _, _)
FindBySubstring(rest, friendly, name) ==
    IF rest = <<>> THEN NoReturn
    ELSE IF Contains(friendly, Head(rest)[1]) \/ Contains(name, Head(rest)[1])
         THEN Head(rest)[2]
         ELSE FindBySubstring(Tail(rest), friendly, name)

\* a bug: a marker whose ecosystem has no handler ends the loop, and the
\* lookup, with None
RECURSIVE FindByPropsFinal(_, _)
FindByPropsFinal(props, registry) ==
    IF props = <<>> THEN NoReturn
    ELSE LET kv == PropText(Head(props)[1], Head(props)[2])
         IN  IF kv = Raise THEN Raise
             ELSE IF Contains(kv, Matter)
                  THEN IF HasKey(registry, Matter)
                       THEN DictGet(registry, Matter) ELSE None
             ELSE IF Contains(kv, HomeAssistant) \/ Contains(kv, Hass)
                  THEN IF HasKey(registry, HomeAssistantKey)
                       THEN DictGet(registry, HomeAssistantKey) ELSE None
             ELSE FindByPropsFinal(Tail(props), registry)

find_handler_marker_final(device, registry) ==
    LET short  == extract_service_name(device.type)
        byprop == FindByPropsFinal(device.properties, registry)
        bysub  == FindBySubstring(registry,
                                  MethodLower(Or(device.friendly, <<>>)),
                                  MethodLower(Or(device.name, <<>>)))
    IN  IF HasKey(registry, short) THEN DictGet(registry, short)
        ELSE IF byprop # NoReturn THEN byprop
        ELSE IF bysub # NoReturn THEN bysub
        ELSE None

\* a bug: the TXT properties are looked at before the service type
find_handler_props_first(device, registry) ==
    LET short  == extract_service_name(device.type)
        byprop == FindByProps(device.properties, registry)
        bysub  == FindBySubstring(registry,
                                  MethodLower(Or(device.friendly, <<>>)),
                                  MethodLower(Or(device.name, <<>>)))
    IN  IF byprop # NoReturn THEN byprop
        ELSE IF HasKey(registry, short) THEN DictGet(registry, short)
        ELSE IF bysub # NoReturn THEN bysub
        ELSE None

\* find_handler_for_device(device) with _device_handlers = registry.  The
\* properties of a store entry are a dict, so `or {}` leaves them as they are.
find_handler_for_device(device, registry) ==
    LET short  == extract_service_name(device.type)
        byprop == FindByProps(device.properties, registry)
        bysub  == FindBySubstring(registry,
                                  MethodLower(Or(device.friendly, <<>>)),
                                  MethodLower(Or(device.name, <<>>)))
    IN  IF HasKey(registry, short) THEN DictGet(registry, short)
        ELSE IF byprop # NoReturn THEN byprop
        ELSE IF bysub # NoReturn THEN bysub
        ELSE None

\* register_device_handler(key, handler)
register_device_handler(key, handler) ==
    /\ handlers' = DictSet(handlers, key, handler)
    /\ found' = NoFound
    /\ UNCHANGED <<main_vars, started, fname, screen>>
    /\ UNCHANGED <<discovered, browsed, devices, show, lock, queue, mac_cache,
                   vendor_cache, maclook, pc, dloc, wloc, hist>>
    /\ Quiet

\* the REPL's `interact <n>` up to the handler lookup (IoTScout.py 188-199):
\* a snapshot of the store under its lock, then find_handler_for_device
FindHandler(n) ==
    /\ lock["devices"] = "free"
    /\ n \in 0..(Len(devices) - 1)
    /\ found' = [device |-> devices[n + 1],
                 result |-> find_handler_for_device(devices[n + 1], handlers)]
    /\ UNCHANGED <<main_vars, started, fname, screen>>
    /\ UNCHANGED <<handlers, discovered, browsed, devices, show, lock, queue,
                   mac_cache, vendor_cache, maclook, pc, dloc, wloc, hist>>
    /\ Quiet

\* the keys and handlers the model registers, in any order and more than once
Hue == <<"h","u","e">>

RegKeys == {Hue, Matter, HomeAssistantKey}

Handlers == {<<"handler", "Philips Hue">>, <<"handler", "Matter Device">>,
             <<"handler", "Home Assistant">>}

\* service-infos whose TXT records carry the markers
InfoHass ==
    [id |-> <<"InfoHass">>, server |-> None, addresses |-> <<>>,
     parse_raises |-> FALSE,
     properties |-> << [k |-> <<"v","i","a">>, kok |-> TRUE,
                        v |-> <<"H","a","s","s">>, vkind |-> "bytes"] >>]

InfoMatter ==
    [id |-> <<"InfoMatter">>, server |-> None, addresses |-> <<>>,
     parse_raises |-> FALSE,
     properties |-> << [k |-> <<"p","r","o","t","o">>, kok |-> TRUE,
                        v |-> <<"M","a","t","t","e","r">>, vkind |-> "bytes"],
                       [k |-> <<"h","a","s","s">>, kok |-> TRUE,
                        v |-> <<>>, vkind |-> "none"] >>]

InfoBoth ==
    [id |-> <<"InfoBoth">>, server |-> None, addresses |-> <<>>,
     parse_raises |-> FALSE,
     properties |-> << [k |-> <<"h","a","s","s">>, kok |-> TRUE,
                        v |-> <<"1">>, vkind |-> "bytes"],
                       [k |-> <<"m","a","t","t","e","r">>, kok |-> TRUE,
                        v |-> <<>>, vkind |-> "none"] >>]

Hue2 == <<"H","u","e","2">>

FHStore ==
    << ResolvedDevice(HueType, <<"a">>, InfoHass),
       ResolvedDevice(LampType, Hue2, InfoMatter),
       ResolvedDevice(LampType, <<"a">>, Info2),
       MinimalDevice(LampType, <<"h","u","e">>),
       ResolvedDevice(LampType, <<"c">>, InfoBoth),
       ResolvedDevice(HueType, Hue2, Info1) >>

\* The registry and the lookup on a store that discovery has filled.
InitFH ==
    /\ devices = FHStore
    /\ discovered = {Key(devices[i]) : i \in 1..Len(devices)}
    /\ queue = <<>>
    /\ browsed = {}
    /\ show = TRUE
    /\ lock = [l \in Locks |-> "free"]
    /\ mac_cache = <<>>
    /\ vendor_cache = <<>>
    /\ maclook = FALSE
    /\ pc = [t \in Threads |-> "idle"]
    /\ dloc = [t \in DThreads |-> NoDLoc]
    /\ wloc = [w \in Workers |-> NoWLoc]
    /\ out = NoLine
    /\ raised = NoRaise
    /\ handlers = <<>>
    /\ found = NoFound
    /\ screen = NoScreen
    /\ fname = NoName
    /\ started = <<>>
    /\ snap = NoSnap
    /\ mloc = NoData
    /\ exported = NoData
    /\ hist = [removed |-> FALSE, dropped |-> {},
               adds |-> [k \in Keys |-> IF k \in discovered THEN 1 ELSE 0],
               claims |-> [k \in Keys |-> IF k \in discovered THEN 1 ELSE 0]]

NextFH ==
    \/ \E key \in RegKeys, handler \in Handlers :
          register_device_handler(key, handler)
    \/ \E n \in 0..(Len(devices) - 1) : FindHandler(n)

SpecFH == InitFH /\ [][NextFH]_vars

----------------------------------------------------------------------------
(* the main thread's readers: get_devices and export_devices_json *)

\* list(_discovered_devices) (line 111): a new list of the same dict objects.
\* The store never drops or moves a dict, so a reference to one is its
\* position in the store.
ListCopy(devs) == [i \in 1..Len(devs) |-> i]

\* a device read through a reference
Deref(ref) == devices[ref]

\* get_devices() (lines 109-111), called by the main thread: it takes
\* _discovered_devices_lock
GetDevices ==
    /\ pc["main"] = "idle"
    /\ Acquire("main", "devices")
    /\ Goto("main", "gd_body")
    /\ UNCHANGED <<snap, mloc, exported, handlers, found, started, fname, screen>>
    /\ UNCHANGED <<discovered, browsed, devices, show, queue, mac_cache,
                   vendor_cache, maclook, dloc, wloc, hist>>
    /\ Quiet

\* return list(_discovered_devices) (line 111)
GetDevicesBody ==
    /\ pc["main"] = "gd_body"
    /\ snap' = [refs |-> ListCopy(devices), taken |-> devices]
    /\ Release("main", "devices")
    /\ Goto("main", "idle")
    /\ UNCHANGED <<mloc, exported, handlers, found, started, fname, screen>>
    /\ UNCHANGED <<discovered, browsed, devices, show, queue, mac_cache,
                   vendor_cache, maclook, dloc, wloc, hist>>
    /\ Quiet

DeviceKeys == {"type", "name", "friendly", "hostname", "ip", "mac", "vendor",
              "service_info", "properties"}

\* {k: (v if k != 'service_info' else None) for k, v in d.items()} (line 334):
\* a new dict with every key of d
ExportRecord(d) ==
    [k \in DeviceKeys |-> IF k # "service_info" THEN d[k] ELSE None]

\* export_devices_json(path) (lines 331-340), called by the main thread: it
\* takes _discovered_devices_lock
ExportDevices ==
    /\ pc["main"] = "idle"
    /\ Acquire("main", "devices")
    /\ Goto("main", "ex_body")
    /\ UNCHANGED <<snap, mloc, exported, handlers, found, started, fname, screen>>
    /\ UNCHANGED <<discovered, browsed, devices, show, queue, mac_cache,
                   vendor_cache, maclook, dloc, wloc, hist>>
    /\ Quiet

\* the copy under the lock (lines 333-336)
ExportCopy ==
    /\ pc["main"] = "ex_body"
    /\ mloc' = [done |-> TRUE,
                data |-> [i \in 1..Len(devices) |-> ExportRecord(devices[i])],
                store |-> devices,
                value |-> FALSE]
    /\ Release("main", "devices")
    /\ Goto("main", "ex_write")
    /\ UNCHANGED <<snap, exported, handlers, found, started, fname, screen>>
    /\ UNCHANGED <<discovered, browsed, devices, show, queue, mac_cache,
                   vendor_cache, maclook, dloc, wloc, hist>>
    /\ Quiet

\* json.dump(data, f, indent=2) (lines 337-340)
ExportWrite ==
    /\ pc["main"] = "ex_write"
    /\ exported' = mloc
    /\ mloc' = NoData
    /\ pc' = [pc EXCEPT !["main"] = "idle"]
    /\ UNCHANGED <<snap, handlers, found, started, fname, screen>>
    /\ UNCHANGED <<discovered, browsed, devices, show, lock, queue, mac_cache,
                   vendor_cache, maclook, dloc, wloc, hist>>
    /\ Quiet

\* The readers on a store that discovery has filled, while one worker runs
\* the queued enrichment task.
NextRead ==
    \/ Enrichment({"w1"}, MacEnvs, VendorEnvs)
    \/ GetDevices
    \/ GetDevicesBody
    \/ ExportDevices
    \/ ExportCopy
    \/ ExportWrite

SpecRead == InitEnrich /\ [][NextRead]_vars

----------------------------------------------------------------------------
(* Listener.add_service for the meta-service (lines 186-201) *)

DotLocalDot == <<".","l","o","c","a","l",".">>

DotLocal == <<".","l","o","c","a","l">>

\* a bug: the announced name is browsed as it is
KeepType(name) == name

\* service_type of lines 187-192
NormalizeType(name) ==
    IF EndsWith(name, DotLocalDot) THEN name
    ELSE IF EndsWith(name, DotLocal) THEN name \o <<".">>
    ELSE name \o DotLocalDot

\* the callback is entered with the meta-service type and the name of a
\* service type, and takes _browsed_types_lock (line 193)
AddServiceMeta(t, name) ==
    /\ pc[t] = "idle"
    /\ Acquire(t, "browsed")
    /\ Goto(t, "br_test")
    /\ dloc' = [dloc EXCEPT ![t] = [NoDLoc EXCEPT !.type = META_TYPE,
                                                  !.name = name,
                                                  !.service_type = NormalizeType(name)]]
    /\ UNCHANGED <<handlers, found, main_vars, started, fname, screen>>
    /\ UNCHANGED <<discovered, browsed, devices, show, queue, mac_cache,
                   vendor_cache, maclook, wloc, hist>>
    /\ Quiet

\* if service_type in _browsed_types (line 194)
BrowseTest(t) ==
    /\ pc[t] = "br_test"
    /\ dloc' = [dloc EXCEPT ![t].seen = (dloc[t].service_type \in browsed)]
    /\ Goto(t, "br_set")
    /\ UNCHANGED <<handlers, found, main_vars, started, fname, screen>>
    /\ UNCHANGED <<discovered, browsed, devices, show, lock, queue, mac_cache,
                   vendor_cache, maclook, wloc, hist>>
    /\ Quiet

\* return (line 195), or _browsed_types.add(service_type) (line 196); the
\* lock is left
BrowseSet(t) ==
    /\ pc[t] = "br_set"
    /\ Release(t, "browsed")
    /\ IF dloc[t].seen
       THEN /\ Return(t)
            /\ UNCHANGED browsed
       ELSE /\ browsed' = browsed \cup {dloc[t].service_type}
            /\ Goto(t, "br_start")
            /\ UNCHANGED dloc
    /\ UNCHANGED <<handlers, found, main_vars, started, fname, screen>>
    /\ UNCHANGED <<discovered, devices, show, queue, mac_cache, vendor_cache,
                   maclook, wloc, hist>>
    /\ Quiet

\* ServiceBrowser(zeroconf, service_type, self) (lines 197-201)
BrowseStart(t) ==
    /\ pc[t] = "br_start"
    /\ started' = Append(started, dloc[t].service_type)
    /\ Return(t)
    /\ UNCHANGED <<handlers, found, main_vars, fname, screen>>
    /\ UNCHANGED <<discovered, browsed, devices, show, lock, queue, mac_cache,
                   vendor_cache, maclook, wloc, hist>>
    /\ Quiet

\* a bug: a type whose browser could not be started is given back, so that
\* its next announcement tries again
BrowseStartRaisesForgetting(t) ==
    /\ pc[t] = "br_start"
    /\ lock["browsed"] = "free"
    /\ browsed' = browsed \ {dloc[t].service_type}
    /\ Return(t)
    /\ UNCHANGED <<handlers, found, main_vars, started, fname, screen>>
    /\ UNCHANGED <<discovered, devices, show, lock, queue, mac_cache,
                   vendor_cache, maclook, wloc, hist>>
    /\ Quiet

\* ServiceBrowser raises: except Exception: return (lines 199-200)
BrowseStartRaises(t) ==
    /\ pc[t] = "br_start"
    /\ Return(t)
    /\ UNCHANGED <<handlers, found, main_vars, started, fname, screen>>
    /\ UNCHANGED <<discovered, browsed, devices, show, lock, queue, mac_cache,
                   vendor_cache, maclook, wloc, hist>>
    /\ Quiet

\* the names the meta-service announces: one type in its three spellings,
\* another type in two
MetaNames ==
    { HueType,
      SubSeq(HueType, 1, Len(HueType) - 1),
      SubSeq(HueType, 1, Len(HueType) - Len(DotLocalDot)),
      LampType,
      SubSeq(LampType, 1, Len(LampType) - Len(DotLocalDot)) }

\* Two callback threads handle the meta-service's add and update events
\* (update_service calls add_service).
NextBrowse ==
    \/ \E t \in DThreads, name \in MetaNames : AddServiceMeta(t, name)
    \/ \E t \in DThreads :
          \/ BrowseTest(t)
          \/ BrowseSet(t)
          \/ BrowseStart(t)
          \/ BrowseStartRaises(t)

SpecBrowse == Init /\ [][NextBrowse]_vars

----------------------------------------------------------------------------
(* progress of the callbacks *)

\* what the network answers in the runs that are checked for progress
LiveInfos == {Info1}

LiveMacEnvs == { [scapy |-> RawMac1, arp1 |-> <<>>, arp2 |-> <<>>] }

LiveVendorEnvs ==
    { [init |-> TRUE, lookup1 |-> Vendor1, update |-> TRUE, lookup2 |-> Vendor1] }

\* a step of callback thread t after the event was delivered.  The resolve
\* call returns or raises within its timeout (line 210); the other steps are
\* plain statements.
HandlerStep(t) ==
    \/ RemoveBody(t)
    \/ DedupTest(t)
    \/ DedupSet(t)
    \/ ResolveError(t)
    \/ ResolveAbsent(t)
    \/ \E info \in LiveInfos : ResolveInfo(t, info)
    \/ AppendBody(t)
    \/ PrintLock(t)
    \/ PrintBody(t)
    \/ Submit(t)

\* a step of worker w inside one of its `with` blocks: plain statements
CriticalStep(w) ==
    \/ EnrichRead(w)
    \/ EnrichWrite(w)
    \/ EnrichWriteVendor(w)
    \/ EnrichPrint(w)

NextLive ==
    \/ Discovery({"d1"}, LiveInfos)
    \/ Enrichment({"w1"}, LiveMacEnvs, LiveVendorEnvs)

\* One callback thread and one worker.  A thread that can take a step of a
\* callback does so, and a worker leaves a `with` block it has entered; a
\* worker need not start a task, nor come back from a lookup, nor finish.
SpecLive ==
    /\ Init
    /\ [][NextLive]_vars
    /\ WF_vars(HandlerStep("d1"))
    /\ WF_vars(CriticalStep("w1"))

\* the steps of worker w other than the return of get_mac_for_ip
PoolStep(w) ==
    \/ StartTask(w)
    \/ EnrichRead(w)
    \/ MacCall(w)
    \/ VendorCall(w)
    \/ \E env \in LiveVendorEnvs : VendorCompute(w, env)
    \/ EnrichLock(w)
    \/ EnrichWrite(w)
    \/ EnrichWriteVendor(w)
    \/ EnrichPrintLock(w)
    \/ EnrichPrint(w)

\* The same threads when every running task terminates: a free worker takes
\* the task that waits, goes on after each statement, and get_mac_for_ip
\* returns (its probes have timeouts, lines 74-76, 58 and 87).
SpecPool ==
    /\ Init
    /\ [][NextLive]_vars
    /\ WF_vars(HandlerStep("d1"))
    /\ WF_vars(PoolStep("w1"))
    /\ []<>(pc["w1"] # "mac_compute")

----------------------------------------------------------------------------
(* the friendly name as a function of the type and the decoded properties *)

SonosType == <<"_","s","o","n","o","s",".","_","t","c","p",".","l","o","c","a","l",".">>

\* no key of SERVICE_SUFFIX_TO_NAME; its short name is one of SERVICE_TYPE_NAMES
SonosUdpType == <<"_","s","o","n","o","s",".","_","u","d","p",".","l","o","c","a","l",".">>

UnknownType == <<"_","u","n","k","n","o","w","n","1","2","3",".","_","t","c","p",".","l","o","c","a","l",".">>

FriendlyTypes == {HueType, SonosType, SonosUdpType, LampType, UnknownType, <<>>}

Fn == <<"f","n">>

NameKey == <<"n","a","m","e">>

Den == <<"D","e","n">>

Desk == <<"D","e","s","k">>

\* decoded_props: a value is a string, or None for a key without value
FriendlyProps ==
    { <<>>,
      << <<Fn, Den>> >>,
      << <<NameKey, Desk>> >>,
      << <<Fn, Den>>, <<NameKey, Desk>> >>,
      << <<NameKey, Desk>>, <<Fn, Den>> >>,
      << <<Fn, <<>>  >>, <<NameKey, Desk>> >>,
      << <<Fn, None>>, <<NameKey, Desk>> >>,
      << <<Fn, <<>>  >>, <<NameKey, <<>>  >> >>,
      << <<Fn, None>> >>,
      << <<NameKey, None>> >>,
      << << <<"m","d">>, Den>> >> }

\* the handler computes the friendly name of the device it builds: line 215
\* when resolve gave nothing, lines 277-280 otherwise
ComputeFriendly ==
    /\ fname.result = None
    /\ fname' = [fname EXCEPT !.result =
                    IF fname.resolved
                    THEN ResolvedFriendly(fname.type, fname.props)
                    ELSE MinimalFriendly(fname.type)]
    /\ UNCHANGED <<discovered, browsed, devices, show, lock, queue, mac_cache,
                   vendor_cache, maclook, pc, dloc, wloc, out, raised, hist,
                   handlers, found, snap, mloc, exported, started, screen>>

\* a later event with the same type and properties
ComputeFriendlyAgain ==
    /\ fname.result # None
    /\ fname.again = None
    /\ fname' = [fname EXCEPT !.again =
                    IF fname.resolved
                    THEN ResolvedFriendly(fname.type, fname.props)
                    ELSE MinimalFriendly(fname.type)]
    /\ UNCHANGED <<discovered, browsed, devices, show, lock, queue, mac_cache,
                   vendor_cache, maclook, pc, dloc, wloc, out, raised, hist,
                   handlers, found, snap, mloc, exported, started, screen>>

InitFriendly ==
    /\ discovered = {}
    /\ browsed = {}
    /\ devices = <<>>
    /\ show = TRUE
    /\ lock = [l \in Locks |-> "free"]
    /\ queue = <<>>
    /\ mac_cache = <<>>
    /\ vendor_cache = <<>>
    /\ maclook = FALSE
    /\ pc = [t \in Threads |-> "idle"]
    /\ dloc = [t \in DThreads |-> NoDLoc]
    /\ wloc = [w \in Workers |-> NoWLoc]
    /\ out = NoLine
    /\ raised = NoRaise
    /\ hist = [removed |-> FALSE, adds |-> [k \in Keys |-> 0],
               claims |-> [k \in Keys |-> 0], dropped |-> {}]
    /\ handlers = <<>>
    /\ found = NoFound
    /\ screen = NoScreen
    /\ snap = NoSnap
    /\ mloc = NoData
    /\ exported = NoData
    /\ started = <<>>
    /\ \E type \in FriendlyTypes, resolved \in BOOLEAN, props \in FriendlyProps :
          /\ ~resolved => props = <<>>
          /\ fname = [type |-> type, resolved |-> resolved, props |-> props,
                      result |-> None, again |-> None]

NextFriendly == ComputeFriendly \/ ComputeFriendlyAgain

SpecFriendly == InitFriendly /\ [][NextFriendly]_vars

----------------------------------------------------------------------------
(* the four locks, with every critical section entered and left in steps *)

\* set_show_discoveries(value) (lines 114-117) in two steps: the main thread
\* takes _show_discoveries_lock
SetShowEnter(value) ==
    /\ pc["main"] = "idle"
    /\ Acquire("main", "show")
    /\ Goto("main", "ss_body")
    /\ mloc' = [NoData EXCEPT !.value = value]
    /\ UNCHANGED <<handlers, found, snap, exported, started, fname, screen>>
    /\ UNCHANGED <<discovered, browsed, devices, show, queue, mac_cache,
                   vendor_cache, maclook, dloc, wloc, hist>>
    /\ Quiet

\* _show_discoveries = value (line 117), and the lock is given back
SetShowBody ==
    /\ pc["main"] = "ss_body"
    /\ show' = mloc.value
    /\ Release("main", "show")
    /\ Goto("main", "idle")
    /\ mloc' = NoData
    /\ UNCHANGED <<handlers, found, snap, exported, started, fname, screen>>
    /\ UNCHANGED <<discovered, browsed, devices, queue, mac_cache,
                   vendor_cache, maclook, dloc, wloc, hist>>
    /\ Quiet

\* a step of the main thread
MainStep ==
    \/ \E value \in BOOLEAN : SetShowEnter(value)
    \/ SetShowBody
    \/ GetDevices
    \/ GetDevicesBody
    \/ ExportDevices
    \/ ExportCopy
    \/ ExportWrite

\* a step of callback thread t: an event or a step of the handler.  The
\* events are an add or an update for the type 'hue', as a browsed type or as
\* the type of an instance, and a remove for an instance of 'lamp': which
\* locks a handler takes does not depend on the pair.
CallbackStep(t) ==
    \/ \E name \in InstanceNames :
          \/ AddService(t, HueType, name)
          \/ UpdateService(t, HueType, name)
          \/ RemoveService(t, LampType, name)
    \/ HandlerStep(t)
    \/ AddServiceMeta(t, HueType)
    \/ BrowseTest(t)
    \/ BrowseSet(t)
    \/ BrowseStart(t)
    \/ BrowseStartRaises(t)

\* a step of thread t
ThreadStep(t) ==
    IF t = "main" THEN MainStep
    ELSE IF t \in DThreads THEN CallbackStep(t)
    ELSE Enrichment({t}, LiveMacEnvs, LiveVendorEnvs)

NextLocks ==
    \/ CallbackStep("d1")
    \/ Enrichment({"w1"}, LiveMacEnvs, LiveVendorEnvs)
    \/ MainStep

\* One callback thread, one worker and the main thread.
SpecLocks == Init /\ [][NextLocks]_vars

----------------------------------------------------------------------------
(* enrichment of devices that share an address *)

\* a second service of the host of DevA: another type, the same address
DevD == ResolvedDevice(LampType, <<"a">>, Info1)

\* what discovery has stored when one host advertises two services
SharedStores == { <<DevA, DevD>> }

InitShared ==
    /\ devices \in SharedStores
    /\ discovered = {Key(devices[i]) : i \in 1..Len(devices)}
    /\ queue = QueueOf(devices, 1)
    /\ browsed = {}
    /\ show = TRUE
    /\ lock = [l \in Locks |-> "free"]
    /\ mac_cache = <<>>
    /\ vendor_cache = <<>>
    /\ maclook = FALSE
    /\ pc = [t \in Threads |-> "idle"]
    /\ dloc = [t \in DThreads |-> NoDLoc]
    /\ wloc = [w \in Workers |-> NoWLoc]
    /\ out = NoLine
    /\ raised = NoRaise
    /\ handlers = <<>>
    /\ found = NoFound
    /\ screen = NoScreen
    /\ fname = NoName
    /\ started = <<>>
    /\ snap = NoSnap
    /\ mloc = NoData
    /\ exported = NoData
    /\ hist = [removed |-> FALSE, dropped |-> {},
               adds |-> [k \in Keys |-> IF k \in discovered THEN 1 ELSE 0],
               claims |-> [k \in Keys |-> IF k \in discovered THEN 1 ELSE 0]]

\* Two workers of the pool run the two queued tasks.
NextShared == Enrichment(Workers, MacEnvs, VendorEnvs)

SpecShared == InitShared /\ [][NextShared]_vars

----------------------------------------------------------------------------
(* the address of a resolved device, over the address lists resolve can give *)

A4 == [len |-> 4, text |-> Ip4]

Ip4b == <<"1","0",".","0",".","0",".","6">>

A4b == [len |-> 4, text |-> Ip4b]

A6 == [len |-> 16, text |-> Ip6]

Ip6b == <<"f","e","8","0",":",":","2">>

A6b == [len |-> 16, text |-> Ip6b]

\* info.addresses: packed addresses of both families in every order
AddrLists ==
    << <<>>, <<A4>>, <<A6>>, <<A4, A6>>, <<A6, A4>>, <<A6, A6b, A4>>,
       <<A4, A4b, A6>>, <<A6, A6b>> >>

\* the ServiceInfo with the n-th address list; raises: info.parsed_addresses()
\* raises (line 237) and the handler reads info.addresses itself
AddrInfo(n, raises) ==
    [id |-> <<"AddrInfo", n, raises>>, server |-> None,
     addresses |-> AddrLists[n], parse_raises |-> raises, properties |-> <<>>]

AddrInfos == { AddrInfo(n, raises) : n \in 1..Len(AddrLists), raises \in BOOLEAN }

\* the ServiceInfo a device was built from
InfoOf(d) == AddrInfo(d.service_info[2], d.service_info[3])

\* One callback thread resolves instances of the two types; no instance
\* is removed.
NextAddr ==
    \/ \E type \in InstanceTypes, name \in InstanceNames :
          AddService("d1", type, name)
    \/ DedupTest("d1")
    \/ DedupSet("d1")
    \/ \E info \in AddrInfos : ResolveInfo("d1", info)
    \/ AppendBody("d1")
    \/ PrintLock("d1")
    \/ PrintBody("d1")
    \/ Submit("d1")

SpecAddr == Init /\ [][NextAddr]_vars
----------------------------------------------------------------------------
(* IoTScout.py: the prompt's list, show and interact commands *)

\* the printable characters in the order of their code points (the double
\* quote, the backslash and the grave accent, which no input here holds, are
\* left out)
AsciiChars ==
    <<" ", "!", "#", "$", "%", "&", "'", "(", ")", "*", "+",
       ",", "-", ".", "/", "0", "1", "2", "3", "4", "5", "6", "7",
       "8", "9", ":", ";", "<", "=", ">", "?", "@", "A", "B", "C",
       "D", "E", "F", "G", "H", "I", "J", "K", "L", "M", "N", "O",
       "P", "Q", "R", "S", "T", "U", "V", "W", "X", "Y", "Z", "[",
       "]", "^", "_", "a", "b", "c", "d", "e", "f", "g",
       "h", "i", "j", "k", "l", "m", "n", "o", "p", "q", "r", "s",
       "t", "u", "v", "w", "x", "y", "z", "{", "|", "}", "~">>

Ord(c) == CHOOSE i \in 1..Len(AsciiChars) : AsciiChars[i] = c

\* a < b for Python strings
RECURSIVE StrLess(_, _)
StrLess(a, b) ==
    IF b = <<>> THEN FALSE
    ELSE IF a = <<>> THEN TRUE
    ELSE IF a[1] = b[1] THEN StrLess(Tail(a), Tail(b))
    ELSE Ord(a[1]) < Ord(b[1])

\* the key of the list command's sort (line 148):
\* (str(friendly or ''), str(ip or hostname or ''))
SortKey(d) == <<Or(d.friendly, <<>>), Or(Or(d.ip, d.hostname), <<>>)>>

\* k1 < k2 for the key tuples
KeyLess(k1, k2) ==
    \/ StrLess(k1[1], k2[1])
    \/ k1[1] = k2[1] /\ StrLess(k1[2], k2[2])

\* sorted(devices, key=...) on a list of references: a stable sort, the
\* reference at position i goes behind those with a smaller key and those
\* with the same key that stand before it
Sorted(refs) ==
    LET Before(i) ==
            {j \in 1..Len(refs) :
                \/ KeyLess(SortKey(Deref(refs[j])), SortKey(Deref(refs[i])))
                \/ /\ SortKey(Deref(refs[j])) = SortKey(Deref(refs[i]))
                   /\ j < i}
    IN  [r \in 1..Len(refs) |->
            refs[CHOOSE i \in 1..Len(refs) : Cardinality(Before(i)) = r - 1]]

\* `list` (lines 146-150): print_compact_table numbers the rows of the
\* sorted list from 1 (discovery.py lines 311 and 320)
CmdList ==
    /\ pc["main"] = "idle"
    /\ lock["devices"] = "free"
    /\ screen' = [screen EXCEPT !.table = Sorted(ListCopy(devices))]
    /\ UNCHANGED <<handlers, found, main_vars, started, fname>>
    /\ UNCHANGED <<discovered, browsed, devices, show, lock, queue, mac_cache,
                   vendor_cache, maclook, pc, dloc, wloc, hist>>
    /\ Quiet

\* `show <n>` and `interact <n>` (lines 168-181 and 188-198): n is the
\* number less one, "Invalid device number" when it is out of range, else
\* d = devices[n] of what get_devices returned
CmdSelect(number) ==
    /\ pc["main"] = "idle"
    /\ lock["devices"] = "free"
    /\ LET n == number - 1
       IN  screen' = [screen EXCEPT
                         !.n = number,
                         !.selected = IF n < 0 \/ n >= Len(devices)
                                      THEN 0
                                      ELSE ListCopy(devices)[n + 1]]
    /\ UNCHANGED <<handlers, found, main_vars, started, fname>>
    /\ UNCHANGED <<discovered, browsed, devices, show, lock, queue, mac_cache,
                   vendor_cache, maclook, pc, dloc, wloc, hist>>
    /\ Quiet

\* the stores the commands are given on: every sequence of at most
\* MaxDevices of four devices, two of which have one friendly name
ListDevices == {DevA, DevB, DevC, DevD}

ListStores == UNION {[1..n -> ListDevices] : n \in 0..MaxDevices}

InitList ==
    /\ devices \in ListStores
    /\ discovered = {Key(devices[i]) : i \in 1..Len(devices)}
    /\ queue = QueueOf(devices, 1)
    /\ browsed = {}
    /\ show = TRUE
    /\ lock = [l \in Locks |-> "free"]
    /\ mac_cache = <<>>
    /\ vendor_cache = <<>>
    /\ maclook = FALSE
    /\ pc = [t \in Threads |-> "idle"]
    /\ dloc = [t \in DThreads |-> NoDLoc]
    /\ wloc = [w \in Workers |-> NoWLoc]
    /\ out = NoLine
    /\ raised = NoRaise
    /\ handlers = <<>>
    /\ found = NoFound
    /\ screen = NoScreen
    /\ fname = NoName
    /\ started = <<>>
    /\ snap = NoSnap
    /\ mloc = NoData
    /\ exported = NoData
    /\ hist = [removed |-> FALSE, dropped |-> {},
               adds |-> [k \in Keys |-> IF k \in discovered THEN 1 ELSE 0],
               claims |-> [k \in Keys |-> IF k \in discovered THEN 1 ELSE 0]]

\* The prompt on a store that discovery has filled: list, show and interact
\* in any order, with any number.
NextList ==
    \/ CmdList
    \/ \E number \in 0..(MaxDevices + 1) : CmdSelect(number)

SpecList == InitList /\ [][NextList]_vars


----------------------------------------------------------------------------
(* properties *)

\* entries of the Device Store with key k
Count(k) == Cardinality({i \in 1..Len(devices) : Key(devices[i]) = k})

\* every callback has returned
Quiescent == \A t \in DThreads : pc[t] = "idle"

Announced == {k \in Keys : hist.adds[k] > 0}

\* C1 as claimed: after add and update events only, once the handlers have
\* finished, the store holds exactly one entry for every announced pair,
\* whatever its resolve call gave.
C1_ExactlyOnePerAnnouncedPair ==
    (~hist.removed /\ Quiescent) => \A k \in Announced : Count(k) = 1

\* C1 amended: after add and update events only, once the handlers have
\* finished, the store holds exactly one entry for every announced pair whose
\* resolve call returned details or nothing, no entry for a pair whose resolve
\* call raised, and no entry for a pair that was not announced.
C1_OnePerResolvedPair ==
    (~hist.removed /\ Quiescent) =>
        /\ \A k \in Announced : Count(k) = IF k \in hist.dropped THEN 0 ELSE 1
        /\ \A i \in 1..Len(devices) : Key(devices[i]) \in Announced

\* a pair announced twice has one entry, another pair's resolve raised
C1_Witness ==
    /\ ~hist.removed
    /\ Quiescent
    /\ \E k \in Keys : hist.adds[k] = 2 /\ Count(k) = 1
    /\ \E k \in Keys : hist.adds[k] > 0 /\ k \in hist.dropped /\ Count(k) = 0

\* C2: no two entries of the Device Store have the same (type, name) pair.
C2_UniquePairs ==
    \A i, j \in 1..Len(devices) : i # j => Key(devices[i]) # Key(devices[j])

\* C3: of the handlers that test a pair with no removal of it in between, at
\* most one adds it to the dedup set and goes on to resolve; a handler that
\* finds the pair present returns without touching the store, the dedup set
\* or the queue.
C3_AtomicClaim ==
    [][ /\ \A k \in Keys : hist.claims'[k] <= 1
        /\ \A t \in DThreads :
              (pc[t] = "dd_set" /\ dloc[t].seen /\ pc'[t] # "dd_set") =>
                  /\ pc'[t] = "idle"
                  /\ devices' = devices
                  /\ discovered' = discovered
                  /\ queue' = queue ]_vars

\* two handlers for one pair are under way: one resolves, the other has found
\* the pair present
C3_Witness ==
    \E t, u \in DThreads :
        /\ t # u
        /\ pc[t] = "resolve"
        /\ pc[u] = "dd_set" /\ dloc[u].seen
        /\ Key(dloc[t]) = Key(dloc[u])

\* C4: a non-empty hardware address or vendor of a store entry never changes.
C4_NeverOverwritten ==
    [][ \A i \in 1..Len(devices) :
           /\ Truthy(devices[i].mac) => devices'[i].mac = devices[i].mac
           /\ Truthy(devices[i].vendor) => devices'[i].vendor = devices[i].vendor ]_vars

\* an enrichment run has written back although its lookup had found another
\* hardware address than the one the entry holds
C4_Witness ==
    \E w \in Workers :
        /\ pc[w] = "e3_lock"
        /\ Truthy(wloc[w].mac)
        /\ Truthy(devices[wloc[w].device_index + 1].mac)
        /\ devices[wloc[w].device_index + 1].mac # wloc[w].mac

\* C5: in every step the store's sequence of (type, name) pairs is a prefix
\* of the new one, and a step that writes a hardware address or a vendor
\* keeps the length.
C5_AppendOnly ==
    [][ /\ Len(devices') >= Len(devices)
        /\ \A i \in 1..Len(devices) : Key(devices'[i]) = Key(devices[i])
        /\ (\E i \in 1..Len(devices) :
               \/ devices'[i].mac # devices[i].mac
               \/ devices'[i].vendor # devices[i].vendor)
           => Len(devices') = Len(devices) ]_vars

\* two devices are stored and the first one has been enriched
C5_Witness ==
    /\ Len(devices) = 2
    /\ Truthy(devices[1].mac)
    /\ Key(devices[1]) # Key(devices[2])

\* C6: an enrichment run for a device without address returns at once: no
\* lookup (the caches stay as they are), no change of the store, no line.
C6_NoAddressNoOp ==
    [][ \A w \in Workers :
           (/\ pc[w] = "e1_body" /\ pc'[w] # "e1_body"
            /\ wloc[w].device_index \in 0..(Len(devices) - 1)
            /\ ~Truthy(devices[wloc[w].device_index + 1].ip)) =>
                /\ pc'[w] = "idle"
                /\ devices' = devices
                /\ mac_cache' = mac_cache
                /\ vendor_cache' = vendor_cache
                /\ out' = NoLine ]_vars

\* an enrichment run for a device without address has begun
C6_Witness ==
    \E w \in Workers :
        /\ pc[w] = "e1_body"
        /\ wloc[w].device_index \in 0..(Len(devices) - 1)
        /\ ~Truthy(devices[wloc[w].device_index + 1].ip)

\* C7: the step in which a handler's resolve raises returns from the handler
\* and appends nothing, submits nothing and writes no line.
C7_ErrorDropsEvent ==
    [][ \A t \in DThreads :
           raised'[1] = t =>
                /\ pc[t] = "resolve"
                /\ raised'[2] = Key(dloc[t])
                /\ pc'[t] = "idle"
                /\ devices' = devices
                /\ discovered' = discovered
                /\ queue' = queue
                /\ out' = NoLine ]_vars

\* a resolve has raised, its handler has returned and the pair has no entry
C7_Witness ==
    /\ raised # NoRaise
    /\ pc[raised[1]] = "idle"
    /\ Count(raised[2]) = 0
    /\ queue = <<>>

\* the friendly names of the model's two instance types
HueFriendly ==
    <<"P","h","i","l","i","p","s"," ","H","u","e"," ","B","r","i","d","g","e">>

LampFriendly == <<"l","a","m","p"," ","(","s","e","r","v","i","c","e",")">>

\* C8: a handler whose resolve returned nothing appends one device with the
\* event's type and name, the friendly name of the type, and every other
\* field empty; it submits no task.
C8_MinimalDevice ==
    [][ \A t \in DThreads :
           /\ (dloc[t].minimal /\ pc[t] = "ap_body" /\ pc'[t] # "ap_body") =>
                 devices' = Append(devices,
                    [type |-> dloc[t].type, name |-> dloc[t].name,
                     friendly |-> IF dloc[t].type = HueType THEN HueFriendly
                                  ELSE LampFriendly,
                     hostname |-> <<>>, ip |-> <<>>, mac |-> <<>>,
                     vendor |-> <<>>, service_info |-> None,
                     properties |-> <<>>])
           /\ (dloc[t].minimal /\ pc'[t] # pc[t]) =>
                 /\ queue' = queue
                 /\ Len(devices') <= Len(devices) + 1
                 /\ pc[t] # "ap_body" => devices' = devices ]_vars

\* a minimal device is stored, its handler has returned, nothing is queued
C8_Witness ==
    /\ Quiescent
    /\ queue = <<>>
    /\ \E i \in 1..Len(devices) :
          /\ devices[i].service_info = None
          /\ devices[i].type = LampType

\* the three passes of the handler lookup, each stated on its own for a
\* device d and the registry as it is
Short(d) == extract_service_name(d.type)

ExactMatch(d) == \E i \in 1..Len(handlers) : handlers[i][1] = Short(d)

TextOf(p) == Lower(Str(p[1])) \o Lower(Str(p[2]))

HasMatterMarker(d) ==
    \E j \in 1..Len(d.properties) : Contains(TextOf(d.properties[j]), Matter)

HasHomeAssistantMarker(d) ==
    \E j \in 1..Len(d.properties) :
        \/ Contains(TextOf(d.properties[j]), HomeAssistant)
        \/ Contains(TextOf(d.properties[j]), Hass)

MarkerEntries(d) ==
    { handlers[i][2] : i \in { j \in 1..Len(handlers) :
        \/ handlers[j][1] = Matter /\ HasMatterMarker(d)
        \/ handlers[j][1] = HomeAssistantKey /\ HasHomeAssistantMarker(d) } }

SubstringEntries(d) ==
    { handlers[i][2] : i \in { j \in 1..Len(handlers) :
        \/ Contains(Lower(d.friendly), handlers[j][1])
        \/ Contains(Lower(d.name), handlers[j][1]) } }

\* C9: the lookup returns the entry registered under the device's short
\* service-type name if there is one; else an entry whose metadata marker the
\* device carries if there is one; else an entry whose key occurs in the
\* friendly name or the instance name.  A device of short type 'hue' with a
\* home-assistant marker gets the entry registered under 'hue'.
C9_OrderedPasses ==
    found # NoFound =>
        LET d == found.device
            r == found.result
        IN  /\ ExactMatch(d) => r = DictGet(handlers, Short(d))
            /\ (~ExactMatch(d) /\ MarkerEntries(d) # {}) => r \in MarkerEntries(d)
            /\ (~ExactMatch(d) /\ MarkerEntries(d) = {} /\ SubstringEntries(d) # {})
                  => r \in SubstringEntries(d)
            /\ (Short(d) = Hue /\ HasKey(handlers, Hue) /\ HasHomeAssistantMarker(d))
                  => r = DictGet(handlers, Hue)

\* the lookup for a 'hue' device with a home-assistant marker, with another
\* handler registered under 'home-assistant' than under 'hue'
C9_Witness ==
    /\ found # NoFound
    /\ Short(found.device) = Hue
    /\ HasHomeAssistantMarker(found.device)
    /\ HasKey(handlers, Hue)
    /\ HasKey(handlers, HomeAssistantKey)
    /\ DictGet(handlers, HomeAssistantKey) # DictGet(handlers, Hue)
    /\ found.result = DictGet(handlers, Hue)

\* C10: the lookup never raises; it returns a registered entry, or None
\* exactly when no pass matches; it changes neither the registry nor the
\* store's devices.
C10_EntryOrAbsence ==
    /\ [](found # NoFound =>
            LET d == found.device
                r == found.result
            IN  /\ r # Raise
                /\ r # None => \E i \in 1..Len(handlers) : handlers[i][2] = r
                /\ r = None <=> /\ ~ExactMatch(d)
                                /\ MarkerEntries(d) = {}
                                /\ SubstringEntries(d) = {})
    /\ [][ found' # NoFound =>
              /\ handlers' = handlers
              /\ devices' = devices
              /\ \E i \in 1..Len(devices) : found'.device = devices[i] ]_vars

\* the lookup has returned None for a device with a property without value
\* while handlers are registered
C10_Witness ==
    /\ found # NoFound
    /\ found.result = None
    /\ handlers # <<>>
    /\ \E j \in 1..Len(found.device.properties) :
          found.device.properties[j][2] = None

\* C11 as claimed: the exported file is an array with one record per device
\* of the store, in store order; no record has the key service_info; every
\* other field of every record has the value it had in the store when the
\* copy was made.
C11_ExportOmitsRawInfo ==
    exported.done =>
        /\ Len(exported.data) = Len(exported.store)
        /\ \A i \in 1..Len(exported.data) :
              /\ "service_info" \notin DOMAIN exported.data[i]
              /\ \A k \in DeviceKeys \ {"service_info"} :
                    /\ k \in DOMAIN exported.data[i]
                    /\ exported.data[i][k] = exported.store[i][k]

\* C12 as claimed: the hardware address and the vendor read through a
\* snapshot that get_devices returned are those the store had when the
\* snapshot was taken.
C12_SnapshotStable ==
    \A i \in 1..Len(snap.refs) :
        /\ Deref(snap.refs[i]).mac = snap.taken[i].mac
        /\ Deref(snap.refs[i]).vendor = snap.taken[i].vendor

\* a type string without a final '.' and without a final '.local'
Base(s) ==
    LET a == IF EndsWith(s, <<".">>) THEN SubSeq(s, 1, Len(s) - 1) ELSE s
    IN  IF EndsWith(a, DotLocal) THEN SubSeq(a, 1, Len(a) - Len(DotLocal)) ELSE a

\* C13: no two browse subscriptions are started for the same service type,
\* in whatever spellings (with '.local.', with '.local', without suffix) and
\* on whatever threads the type is announced.
C13_BrowsedOnce ==
    \A i, j \in 1..Len(started) :
        i # j => Base(started[i]) # Base(started[j])

\* a browser runs for a type; a second handler, for the same type announced
\* without the full suffix, has found the type present
C13_Witness ==
    \E u \in DThreads :
        /\ pc[u] = "br_set"
        /\ dloc[u].seen
        /\ dloc[u].name # dloc[u].service_type
        /\ \E i \in 1..Len(started) : started[i] = dloc[u].service_type

\* C14: a handler at the submit can always take that step, whatever the
\* workers do, and every handler that was entered returns, although no
\* enrichment task need ever finish.
C14_NeverWaitsForEnrichment ==
    /\ [](\A t \in DThreads : pc[t] = "submit" => ENABLED Submit(t))
    /\ \A t \in DThreads : (pc[t] # "idle") ~> (pc[t] = "idle")

\* the handlers have returned, a task is queued and the worker is busy with
\* an earlier one
C14_Witness ==
    /\ Quiescent
    /\ queue # <<>>
    /\ pc["w1"] # "idle"
    /\ Len(devices) = MaxDevices

\* every probe for the hardware address fails
MacProbesFail(env) ==
    /\ env.scapy \in {Raise, None}
    /\ env.arp1 = <<>>
    /\ env.arp2 = <<>>

\* the vendor database cannot be had, or both lookups fail
VendorLookupsFail(env) ==
    \/ ~env.init
    \/ env.lookup1 = Raise /\ (~env.update \/ env.lookup2 = Raise)

\* worker w can go on, or waits for a lock that another thread holds
CanGoOn(w) ==
    \/ ENABLED Enrichment({w}, MacEnvs, VendorEnvs)
    \/ pc[w] = "e2_lock" /\ lock["devices"] \notin {"free", w}
    \/ pc[w] = "e3_lock" /\ lock["show"] \notin {"free", w}

\* C15: no lookup of an enrichment task hands an exception to the task: a
\* lookup whose probes all fail gives the empty string, the task can always
\* go on to its end, and a write-back leaves a field as it is when the
\* lookup for it gave nothing.
C15_EnrichmentNeverRaises ==
    /\ [](/\ \A env \in MacEnvs :
               /\ get_mac_for_ip(Ip4, env) # Raise
               /\ MacProbesFail(env) => get_mac_for_ip(Ip4, env) = <<>>
          /\ \A env \in VendorEnvs, looked \in BOOLEAN :
               /\ get_vendor_for_mac(Mac1, env, looked)[1] # Raise
               /\ (VendorLookupsFail(env) /\ ~looked) =>
                     get_vendor_for_mac(Mac1, env, looked)[1] = <<>>
          /\ \A w \in Workers :
               /\ wloc[w].mac # Raise
               /\ wloc[w].vendor # Raise
               /\ pc[w] # "idle" => CanGoOn(w))
    /\ [][ \A w \in Workers :
             LET i == wloc[w].device_index + 1
             IN  /\ (pc[w] = "e2_body" /\ pc'[w] # "e2_body" /\ wloc[w].mac = <<>>)
                       => devices'[i].mac = devices[i].mac
                 /\ (pc[w] = "e2_vendor" /\ pc'[w] # "e2_vendor"
                       /\ wloc[w].vendor = <<>>)
                       => devices'[i].vendor = devices[i].vendor ]_vars

\* a task whose lookup for the hardware address failed has come to its
\* write-back; the failure is cached and the entry has no address
C15_Witness ==
    \E w \in Workers :
        /\ pc[w] = "e2_vendor"
        /\ wloc[w].ip = Ip4
        /\ wloc[w].mac = <<>>
        /\ HasKey(mac_cache, Ip4)
        /\ devices[wloc[w].device_index + 1].mac = <<>>

\* C16: a line is written only in a step that finds the display flag true,
\* so none is written from a call of set_show_discoveries(False) to the next
\* call with True; the flag decides nothing else: the step that sets it
\* changes the flag alone, and the steps that look at it are taken for both
\* values, leave the store, the dedup set, the queue and the caches as they
\* are and go on to the same place.
C16_FlagGatesOutputOnly ==
    /\ [](out # NoLine => show)
    /\ [][ /\ out' # NoLine => show /\ show'
           /\ show' # show =>
                 UNCHANGED <<discovered, browsed, devices, lock, queue,
                             mac_cache, vendor_cache, maclook, pc, dloc, wloc>>
           /\ \A t \in DThreads :
                 (pc[t] = "pr_body" /\ pc'[t] # "pr_body") =>
                     /\ pc'[t] = IF dloc[t].minimal THEN "idle" ELSE "submit"
                     /\ out' # NoLine <=> show
                     /\ UNCHANGED <<discovered, devices, queue, mac_cache,
                                    vendor_cache>>
           /\ \A w \in Workers :
                 (pc[w] = "e3_body" /\ pc'[w] # "e3_body") =>
                     /\ pc'[w] = "idle"
                     /\ out' # NoLine <=> show
                     /\ UNCHANGED <<discovered, devices, queue, mac_cache,
                                    vendor_cache>> ]_vars

\* with the flag false two devices were appended and an enrichment task has
\* written to the store and stands where it would print
C16_Witness ==
    /\ ~show
    /\ Len(devices) = MaxDevices
    /\ \E w \in Workers :
          /\ pc[w] = "e3_body"
          /\ Truthy(devices[wloc[w].device_index + 1].mac)

\* a non-empty string: no None, and every element one character
NonEmptyString(r) ==
    /\ r # None
    /\ r # <<>>
    /\ \A i \in 1..Len(r) : r[i] # "None"

\* C17: the friendly name is the label of the raw type in the table of
\* well-known types if there is one; else the label of the short type name in
\* the second table if there is one; else the property 'fn' if it is not
\* empty; else the property 'name' if it is not empty; else the short type
\* name followed by ' (service)'.  It is a non-empty string for every type
\* and every properties, and the same for the same arguments.
C17_FriendlyPrecedence ==
    fname.result # None =>
        LET type == fname.type
            props == fname.props
            r == fname.result
            short == extract_service_name(type)
            inFirst == HasKey(SERVICE_SUFFIX_TO_NAME, type)
            inSecond == HasKey(SERVICE_TYPE_NAMES, short)
            fn == DictGet(props, Fn)
            name == DictGet(props, NameKey)
        IN  /\ inFirst => r = DictGet(SERVICE_SUFFIX_TO_NAME, type)
            /\ (~inFirst /\ inSecond) => r = DictGet(SERVICE_TYPE_NAMES, short)
            /\ (~inFirst /\ ~inSecond /\ Truthy(fn)) => r = fn
            /\ (~inFirst /\ ~inSecond /\ ~Truthy(fn) /\ Truthy(name)) => r = name
            /\ (~inFirst /\ ~inSecond /\ ~Truthy(fn) /\ ~Truthy(name)) =>
                  r = short \o ServiceSuffix
            /\ NonEmptyString(r)
            /\ fname.again # None => fname.again = r

\* the name was computed twice for a type whose two labels differ and whose
\* properties advertise a display name
C17_Witness ==
    /\ fname.again # None
    /\ fname.type = SonosType
    /\ DictGet(SERVICE_SUFFIX_TO_NAME, SonosType) #
          DictGet(SERVICE_TYPE_NAMES, extract_service_name(SonosType))
    /\ Truthy(DictGet(fname.props, Fn))
    /\ Truthy(DictGet(fname.props, NameKey))

\* what C18 says of the removal itself and of the test a later add makes:
\* the steps of remove_service take the pair out of the dedup set, if it is
\* there, and leave the store, the browsed types and the flag as they are;
\* the test of add_service looks at the dedup set alone; an append puts the
\* handler's pair at the end and leaves every older entry as it is.
RemovalFrame ==
    \A t \in DThreads :
        /\ (pc'[t] # pc[t] /\ (pc'[t] = "rm_body" \/ pc[t] = "rm_body")) =>
              /\ devices' = devices
              /\ browsed' = browsed
              /\ show' = show
              /\ queue' = queue
        /\ (pc'[t] = "rm_body" /\ pc[t] # "rm_body") => discovered' = discovered
        /\ (pc[t] = "rm_body" /\ pc'[t] # "rm_body") =>
              /\ discovered' = discovered \ {Key(dloc[t])}
              /\ Key(dloc[t]) \notin discovered => discovered' = discovered
        /\ (pc[t] = "dd_test" /\ pc'[t] # "dd_test") =>
              dloc'[t].seen = (Key(dloc[t]) \in discovered)
        /\ (pc[t] = "dd_set" /\ pc'[t] # "dd_set" /\ ~dloc[t].seen) =>
              pc'[t] = "resolve"
        /\ (pc[t] = "ap_body" /\ pc'[t] # "ap_body") =>
              /\ Len(devices') = Len(devices) + 1
              /\ Key(devices'[Len(devices')]) = Key(dloc[t])
              /\ \A i \in 1..Len(devices) : devices'[i] = devices[i]

\* C18 as claimed: a removal changes the dedup set alone, and a later add for
\* a pair that has an entry, having found the pair absent from the dedup
\* set, goes on to append a second entry.
C18_RemoveThenAddAppends ==
    [][ /\ RemovalFrame
        /\ \A t \in DThreads :
              (pc[t] = "resolve" /\ pc'[t] # "resolve" /\ Count(Key(dloc[t])) >= 1)
                  => pc'[t] = "ap_body" ]_vars

\* C18 amended: a removal changes the dedup set alone, and a later add for a
\* pair that has an entry, having found the pair absent from the dedup set,
\* goes on to append a second entry unless its resolve raises; then it
\* returns and the store stays as it is.
C18_RemoveThenAddAppendsUnlessDropped ==
    [][ /\ RemovalFrame
        /\ \A t \in DThreads :
              (pc[t] = "resolve" /\ pc'[t] # "resolve" /\ Count(Key(dloc[t])) >= 1)
                  => \/ pc'[t] = "ap_body"
                     \/ /\ raised' = <<t, Key(dloc[t])>>
                        /\ pc'[t] = "idle"
                        /\ devices' = devices ]_vars

\* a pair was removed and added again: it has two entries and is in the
\* dedup set
C18_Witness ==
    /\ hist.removed
    /\ Quiescent
    /\ \E k \in Keys : Count(k) = 2 /\ k \in discovered

\* the locks thread t holds
Held(t) == {l \in Locks : lock[l] = t}

\* C19: a thread holds at most one of the four locks, and takes a lock only
\* when it holds none; the thread that holds a lock never waits: it has a
\* step of its own to take, so no threads wait for each other in a circle.
C19_OneLockAtATime ==
    /\ [](/\ \A t \in Threads : Cardinality(Held(t)) <= 1
          /\ \A l \in Locks : lock[l] # "free" => ENABLED ThreadStep(lock[l]))
    /\ [][ \A t \in Threads, l \in Locks :
             (lock'[l] = t /\ lock[l] # t) => Held(t) = {} ]_vars

\* three threads are in three critical sections at once
C19_Witness ==
    /\ lock["show"] = "main"
    /\ lock["devices"] = "w1"
    /\ lock["browsed"] = "d1"
    /\ pc["w1"] = "e2_body"

\* the store holds for pair k a device without details: the minimal device
\* appended when resolve returned nothing
NeedsResolution(k) ==
    \E i \in 1..Len(devices) :
        Key(devices[i]) = k /\ devices[i].service_info = None

\* C20: an update event runs the add logic; when it finds its pair in the
\* dedup set it goes on to resolve if the pair's stored device is without
\* details, and otherwise returns with the store, the dedup set and the
\* queue as they were.
C20_UpdateRefreshes ==
    [][ \A t \in DThreads :
           (pc[t] = "dd_set" /\ pc'[t] # "dd_set" /\ dloc[t].seen) =>
               IF NeedsResolution(Key(dloc[t]))
               THEN pc'[t] = "resolve"
               ELSE /\ pc'[t] = "idle"
                    /\ devices' = devices
                    /\ discovered' = discovered
                    /\ queue' = queue ]_vars

\* C21: the probes for an address run at most once: the cache never loses
\* an entry, and a run of the probes ends only while the cache has no entry
\* for its address, whatever other tasks do at the same time.
C21_ProbedOncePerAddress ==
    [][ /\ \A i \in 1..Len(mac_cache) :
              /\ Len(mac_cache') >= i
              /\ mac_cache'[i] = mac_cache[i]
        /\ \A w \in Workers :
              (pc[w] = "mac_compute" /\ pc'[w] # "mac_compute") =>
                  ~HasKey(mac_cache, wloc[w].ip) ]_vars

\* C22: a vendor lookup refreshes the database exactly when its first lookup
\* misses, retries once and gives the empty vendor when the retry fails; and
\* a lookup that refreshes ends only while the cache has no entry for its
\* hardware address, so the refresh runs at most once for an address.
C22_RefreshOncePerAddress ==
    /\ [](\A env \in VendorEnvs, looked \in BOOLEAN :
             LET r == get_vendor_for_mac(Mac1, env, looked)
             IN  /\ r[3] <=> ((looked \/ env.init) /\ env.lookup1 = Raise)
                 /\ (r[3] /\ (~env.update \/ env.lookup2 = Raise)) => r[1] = <<>>)
    /\ [][ \A w \in Workers :
             (pc[w] = "ven_compute" /\ pc'[w] # "ven_compute"
                /\ wloc'[w].refreshed)
                  => ~HasKey(vendor_cache, wloc[w].mac) ]_vars

\* C23: an enrichment task goes on to print exactly when one of its two
\* writes changed the entry, and there it writes a line exactly when the flag
\* is true; the line names the entry's 1-based position and its pair.  No
\* other step of a task writes a line.
C23_LineIffChanged ==
    [][ /\ \A w \in Workers :
              LET i == wloc[w].device_index + 1
              IN  /\ (pc[w] = "e2_body" /\ pc'[w] # "e2_body") =>
                        /\ wloc'[w].updated <=> devices'[i].mac # devices[i].mac
                        /\ out' = NoLine
                  /\ (pc[w] = "e2_vendor" /\ pc'[w] # "e2_vendor") =>
                        /\ pc'[w] = "e3_lock" <=>
                              (wloc[w].updated \/ devices'[i].vendor # devices[i].vendor)
                        /\ pc'[w] # "e3_lock" => pc'[w] = "idle"
                        /\ out' = NoLine
                  /\ (pc[w] = "e3_body" /\ pc'[w] # "e3_body") =>
                        /\ out' # NoLine <=> show
                        /\ show => /\ out'.by = "enrich"
                                   /\ out'.idx = i
                                   /\ <<out'.type, out'.name>> = Key(devices[i])
        /\ out'.by = "enrich" =>
              \E w \in Workers : pc[w] = "e3_body" /\ pc'[w] = "idle" ]_vars

\* a task has written the line of the second entry while another task for
\* the same entry, which changes nothing, is under way
C23_Witness ==
    /\ out.by = "enrich"
    /\ out.idx = 2
    /\ Truthy(devices[2].mac)
    /\ \E w \in Workers : pc[w] # "idle" /\ wloc[w].device_index = 1

\* C24: a handler that returns has put one task in the queue, for the entry
\* it appended, when that entry has an address, and none otherwise: none for
\* an entry without address, for a minimal device, for a dropped event or
\* for a pair found present.  A handler that appended a resolved device does
\* come to the submission, and nothing else puts a task in the queue.
C24_TaskIffAddress ==
    [][ /\ \A t \in DThreads :
              /\ (pc[t] # "idle" /\ pc'[t] = "idle") =>
                    IF /\ pc[t] = "submit"
                       /\ Truthy(devices[dloc[t].idx].ip)
                    THEN /\ queue' = Append(queue, dloc[t].idx - 1)
                         /\ devices[dloc[t].idx] = dloc[t].device
                    ELSE queue' = queue
              /\ (pc[t] = "pr_body" /\ pc'[t] # "pr_body") =>
                    pc'[t] = IF devices[dloc[t].idx].service_info = None
                             THEN "idle" ELSE "submit"
        /\ queue' # queue =>
              \E t \in DThreads : pc[t] = "submit" /\ pc'[t] = "idle" ]_vars

\* both kinds of resolved device are stored, the handlers have returned, and
\* the one task in the queue is that of the device with an address
C24_Witness ==
    /\ Quiescent
    /\ Len(devices) = 2
    /\ Truthy(devices[1].ip)
    /\ ~Truthy(devices[2].ip)
    /\ devices[2].service_info # None
    /\ queue = <<0>>

\* the addresses of one family in the list the handler goes through: what
\* info.parsed_addresses() returned, or what the handler made of
\* info.addresses when that call raised
Ipv6Of(info) ==
    { ParsedAddrs(info)[j] :
        j \in { k \in 1..Len(ParsedAddrs(info)) :
                  Contains(ParsedAddrs(info)[k], <<":">>) } }

Ipv4Of(info) ==
    { ParsedAddrs(info)[j] :
        j \in { k \in 1..Len(ParsedAddrs(info)) :
                  ~Contains(ParsedAddrs(info)[k], <<":">>) } }

C26_Ipv6Retained ==
    \A i \in 1..Len(devices) :
        LET d == devices[i]
            info == InfoOf(d)
        IN  (Ipv4Of(info) # {} /\ Ipv6Of(info) # {}) =>
                /\ d.ip \in Ipv4Of(info)
                /\ "ipv6" \in DOMAIN d
                /\ \E k \in DOMAIN d : k = "ipv6" /\ d[k] \in Ipv6Of(info)

\* the tasks that wait in the pool's queue
Waiting == {queue[j] : j \in 1..Len(queue)}

InFlight(k) ==
    \E t \in DThreads :
        /\ pc[t] \in {"resolve", "ap_body", "pr_lock", "pr_body", "submit"}
        /\ Key(dloc[t]) = k

\* pair k is in the dedup set, has no entry in the store and no handler is
\* at work on it
Stuck(k) == k \in discovered /\ Count(k) = 0 /\ ~InFlight(k)

\* C28: a resolve that raises leaves the dedup set as it is, so a pair
\* without entry whose only handler raised is stuck; a stuck pair got there by
\* a raising resolve, every handler that tests it returns without resolving
\* or appending, and it stays stuck until a remove event's handler takes it
\* out of the dedup set.
C28_FailedPairStaysClaimed ==
    /\ [](\A k \in Keys : Stuck(k) => k \in hist.dropped)
    /\ [][ \A t \in DThreads, k \in Keys :
             (raised'[1] = t /\ k = Key(dloc[t])) =>
                 /\ discovered' = discovered
                 /\ devices' = devices
                 /\ (k \in discovered /\ Count(k) = 0
                       /\ \A u \in DThreads \ {t} :
                             ~(pc[u] \in {"resolve", "ap_body", "pr_lock",
                                          "pr_body", "submit"}
                               /\ Key(dloc[u]) = k))
                      => Stuck(k)' ]_vars
    /\ [][ \A k \in Keys :
             Stuck(k) =>
                 /\ \A t \in DThreads :
                       (pc[t] = "dd_set" /\ Key(dloc[t]) = k /\ pc'[t] # "dd_set")
                           => pc'[t] = "idle" /\ devices' = devices
                 /\ \/ Stuck(k)'
                    \/ \E t \in DThreads :
                          /\ pc[t] = "rm_body"
                          /\ Key(dloc[t]) = k
                          /\ pc'[t] = "idle"
                          /\ discovered' = discovered \ {k} ]_vars

\* the resolve of a pair raised; a later event for the pair has found it in
\* the dedup set and is about to return, and the pair has no entry
C28_Witness ==
    \E k \in Keys :
        /\ Stuck(k)
        /\ k \in hist.dropped
        /\ \E t \in DThreads :
              pc[t] = "dd_set" /\ Key(dloc[t]) = k /\ dloc[t].seen

\* handler t has appended its device and has not yet returned
Appended(t) == pc[t] \in {"pr_lock", "pr_body", "submit"}

\* C29: the index a handler holds after its append is the position of its
\* own device, whatever was appended since, and no other handler holds it;
\* the line it writes carries that index and the task it submits is that
\* index less one, which was not submitted before: the queue of submitted
\* tasks, from which nothing is taken here, never holds an index twice.
C29_OwnIndexOnce ==
    /\ [](/\ \A i, j \in 1..Len(queue) : queue[i] = queue[j] => i = j
          /\ \A i \in 1..Len(queue) : queue[i] \in 0..(Len(devices) - 1)
          /\ \A t \in DThreads :
                Appended(t) =>
                    /\ dloc[t].idx \in 1..Len(devices)
                    /\ devices[dloc[t].idx] = dloc[t].device
                    /\ \A i \in 1..Len(queue) : queue[i] # dloc[t].idx - 1
                    /\ \A u \in DThreads \ {t} :
                          Appended(u) => dloc[u].idx # dloc[t].idx)
    /\ [][ \A t \in DThreads :
             /\ (pc[t] = "ap_body" /\ pc'[t] # "ap_body") =>
                   /\ devices' = Append(devices, dloc[t].device)
                   /\ dloc'[t].idx = Len(devices) + 1
             /\ (pc[t] = "pr_body" /\ pc'[t] # "pr_body" /\ show) =>
                   /\ out'.idx = dloc[t].idx
                   /\ out'.name = devices[dloc[t].idx].name
                   /\ out'.type = devices[dloc[t].idx].type
             /\ (pc[t] = "submit" /\ pc'[t] # "submit"
                   /\ Truthy(dloc[t].device.ip)) =>
                   queue' = Append(queue, dloc[t].idx - 1) ]_vars

\* a handler is about to submit its task although another handler has
\* appended after it, and that other one has already submitted its own
C29_Witness ==
    \E t \in DThreads :
        /\ pc[t] = "submit"
        /\ Truthy(dloc[t].device.ip)
        /\ dloc[t].idx = 1
        /\ Len(devices) = 2
        /\ queue = <<1>>

\* worker w is between its vendor lookup and the end of its write-back
Looked(w) == pc[w] \in {"e2_lock", "e2_body", "e2_vendor"}

\* C30: an entry with a vendor has a hardware address.  The vendor a task
\* holds is what get_vendor_for_mac gave for the hardware address the task
\* holds (from the cache or from a run of the function), the task keeps the
\* two until its write-back, and the step that writes a vendor into an
\* entry writes the task's vendor into the entry of the task's index, whose
\* hardware address is then the task's.
C30_VendorOfStoredMac ==
    /\ [](\A i \in 1..Len(devices) :
             Truthy(devices[i].vendor) => Truthy(devices[i].mac))
    /\ [](\A w \in Workers :
             (Looked(w) /\ Truthy(wloc[w].vendor)) =>
                 /\ Truthy(wloc[w].mac)
                 /\ HasKey(vendor_cache, wloc[w].mac))
    /\ [][ \A w \in Workers :
             /\ (pc[w] = "ven_call" /\ pc'[w] = "e2_lock") =>
                   /\ wloc'[w].mac = wloc[w].mac
                   /\ wloc'[w].vendor = DictGet(vendor_cache, wloc[w].mac)
             /\ (pc[w] = "ven_compute" /\ pc'[w] # "ven_compute") =>
                   /\ wloc'[w].mac = wloc[w].mac
                   /\ \E env \in VendorEnvs :
                         wloc'[w].vendor =
                             get_vendor_for_mac(wloc[w].mac, env, maclook)[1]
             /\ (Looked(w) /\ Looked(w)') =>
                   /\ wloc'[w].mac = wloc[w].mac
                   /\ wloc'[w].vendor = wloc[w].vendor
                   /\ wloc'[w].device_index = wloc[w].device_index ]_vars
    /\ [][ \A i \in 1..Len(devices) :
             devices'[i].vendor # devices[i].vendor =>
                 \E w \in Workers :
                     /\ pc[w] = "e2_vendor"
                     /\ pc'[w] # "e2_vendor"
                     /\ wloc[w].device_index = i - 1
                     /\ devices'[i].vendor = wloc[w].vendor
                     /\ devices'[i].mac = wloc[w].mac ]_vars

\* two devices of one host whose tasks ran at the same time and found
\* different hardware addresses: each entry has the vendor of its own
C30_Witness ==
    /\ Len(devices) = 2
    /\ Truthy(devices[1].vendor)
    /\ Truthy(devices[2].vendor)
    /\ devices[1].mac # devices[2].mac
    /\ devices[1].vendor # devices[2].vendor

\* handler t has appended its device and has not finished its notification
Unannounced(t) == pc[t] \in {"pr_lock", "pr_body"}

\* C31: while a handler has not finished the notification of the device it
\* appended, no task for that device waits or runs; a handler submits only
\* in the step after its notification; and the step in which a worker
\* writes an enrichment line for a device is never taken while the handler
\* of that device is still before or in its notification.
C31_NotifiedBeforeEnriched ==
    /\ [](\A t \in DThreads :
             Unannounced(t) =>
                 /\ \A j \in 1..Len(queue) : queue[j] # dloc[t].idx - 1
                 /\ \A w \in Workers :
                       pc[w] # "idle" => wloc[w].device_index # dloc[t].idx - 1)
    /\ [][ /\ \A t \in DThreads :
                 pc'[t] = "submit" => pc[t] \in {"pr_body", "submit"}
           /\ queue' # queue /\ Len(queue') > Len(queue) =>
                 \E t \in DThreads : pc[t] = "submit" /\ pc'[t] = "idle"
           /\ \A w \in Workers :
                 (pc[w] = "e3_body" /\ pc'[w] # "e3_body") =>
                     \A t \in DThreads :
                         Unannounced(t) =>
                             dloc[t].idx # wloc[w].device_index + 1 ]_vars

\* the worker is about to write the enrichment line of the first device
\* while the handler, having appended the second, waits for the flag's lock
C31_Witness ==
    /\ show
    /\ pc["w1"] = "e3_body"
    /\ wloc["w1"].device_index = 0
    /\ pc["d1"] = "pr_lock"
    /\ dloc["d1"].idx = 2

\* C32: on one store, the device that show n and interact n select is the
\* device the list command showed next to the number n.
C32_ListNumberSelects ==
    screen.n \in 1..Len(screen.table) =>
        screen.selected = screen.table[screen.n]

\* service type s is in the browsed-type set, no browser was started for it
\* and no handler is about to start one
Unbrowsed(s) ==
    /\ s \in browsed
    /\ \A i \in 1..Len(started) : started[i] # s
    /\ \A t \in DThreads : ~(pc[t] = "br_start" /\ dloc[t].service_type = s)

\* C33: nothing leaves the browsed-type set; the step in which the start of
\* a browser raises leaves the type in the set; a type that is in the set
\* without a browser stays so for ever, and a handler that tests such a type
\* returns without starting a browser.
C33_FailedBrowseStaysClaimed ==
    [][ /\ browsed \subseteq browsed'
        /\ \A t \in DThreads :
              /\ (pc[t] = "br_start" /\ pc'[t] = "idle" /\ started' = started) =>
                    /\ browsed' = browsed
                    /\ dloc[t].service_type \in browsed'
              /\ (pc[t] = "br_set" /\ pc'[t] # "br_set"
                    /\ Unbrowsed(dloc[t].service_type)) =>
                    /\ pc'[t] = "idle"
                    /\ started' = started
        /\ \A s \in browsed : Unbrowsed(s) => Unbrowsed(s)' ]_vars

\* the start of a type's browser has failed; a later announcement of the
\* type has found it in the set and is about to return
C33_Witness ==
    \E t \in DThreads :
        /\ pc[t] = "br_set"
        /\ dloc[t].seen
        /\ Unbrowsed(dloc[t].service_type)

\* entry p of the metadata carries an ecosystem marker, and no ecosystem
\* whose marker it carries has a registered handler
DeadMarker(p) ==
    LET matter == Contains(TextOf(p), Matter)
        hass   == Contains(TextOf(p), HomeAssistant) \/ Contains(TextOf(p), Hass)
    IN  /\ matter \/ hass
        /\ matter => ~HasKey(handlers, Matter)
        /\ hass => ~HasKey(handlers, HomeAssistantKey)

\* device d without the j-th entry of its metadata
WithoutEntry(d, j) ==
    [d EXCEPT !.properties =
        SubSeq(d.properties, 1, j - 1) \o
        SubSeq(d.properties, j + 1, Len(d.properties))]

\* C34: the result of a lookup is the result for the same device without
\* any one metadata entry whose markers belong to unregistered ecosystems;
\* and such an entry does not make the lookup give None: when the device's
\* short type is not registered and a registered key occurs in its friendly
\* name or instance name, a handler is returned.
C34_UnregisteredMarkerSkipped ==
    found # NoFound =>
        LET d == found.device
            r == found.result
        IN  /\ \A j \in 1..Len(d.properties) :
                  DeadMarker(d.properties[j]) =>
                      r = find_handler_for_device(WithoutEntry(d, j), handlers)
            /\ (~ExactMatch(d) /\ SubstringEntries(d) # {}) => r # None

\* a device with a matter marker was looked up while no handler is
\* registered under 'matter' nor under its short type: the substring pass
\* has found the handler registered under 'hue'
C34_Witness ==
    /\ found # NoFound
    /\ ~ExactMatch(found.device)
    /\ \E j \in 1..Len(found.device.properties) :
          /\ DeadMarker(found.device.properties[j])
          /\ Contains(TextOf(found.device.properties[j]), Matter)
    /\ HasKey(handlers, Hue)
    /\ found.result = DictGet(handlers, Hue)

====
